---- MODULE Spec2Model ----
(***************************************************************************)
(* Verification model of the Project Economics & Scheduling Engine         *)
(* (src/src/app/api/projects/route.ts): the resource scheduler             *)
(* (optimizeResourceAllocation, topologicalSort, getEarliestStartTime,     *)
(* scheduleTask, performResourceLeveling, performScenarioAnalysis), driven *)
(* by the resource-allocation POST handler (src/src/app/page.tsx), and the *)
(* decision tree evaluator (analyzeDecisionTree), driven by the POST       *)
(* handler of src/src/app/api/decision-tree/route.ts.                      *)
(*                                                                         *)
(* Amounts, capacities, rates and periods are integers in the inputs drawn *)
(* here and availability multipliers are 0 or 1. The numbers of the        *)
(* decision tree are exact fractions, probabilities counted in tenths.     *)
(***************************************************************************)
EXTENDS Integers, Sequences, FiniteSets, TLC

\* ------------------------------------------------------------------------
\* Bounds of the model
\* ------------------------------------------------------------------------
MaxCapacity == 2
MaxDuration == 2
MaxDeadline == 3
MaxStack == 5

\* the longest list of cash flows of a call
MaxFlows == 3

\* the greatest maxIterations of a call of calculateIRR
MaxIterations == 2

\* the most iterations of a Monte Carlo simulation
MaxSamples == 3

\* the highest priority of a task
MaxPriority == 3

\* projectDeadline || 100
DefaultPeriods == 100

\* ------------------------------------------------------------------------
\* Generic helpers
\* ------------------------------------------------------------------------
Max(a, b) == IF a >= b THEN a ELSE b

Range(s) == {s[i] : i \in DOMAIN s}

RECURSIVE SumOver(_, _)
\* sum of f[x] over the finite set S
SumOver(f, S) ==
  IF S = {} THEN 0
  ELSE LET x == CHOOSE y \in S : TRUE IN f[x] + SumOver(f, S \ {x})

\* Array.prototype.find by key: index of the first element of keys equal to
\* key, 0 when there is none
FirstIndex(keys, key) ==
  IF \E i \in DOMAIN keys : keys[i] = key
  THEN CHOOSE i \in DOMAIN keys :
         keys[i] = key /\ \A j \in 1..(i - 1) : keys[j] # key
  ELSE 0

\* ------------------------------------------------------------------------
\* Data model: Task, Resource (interfaces Resource, Task)
\* ------------------------------------------------------------------------
TaskIds == {"A", "B", "C"}

\* an id that names no task
UnknownTask == "Z"

ResourceIds == {"R1", "R2"}

\* an id that names no resource
UnknownResource == "RX"

TaskName(id) == id \o "-name"

ResourceName(id) == id \o "-name"

Req(rid, amount) == [resourceId |-> rid, amount |-> amount]

Task(id, duration, reqs, prereqs) ==
  [id |-> id, name |-> TaskName(id), duration |-> duration,
   requiredResources |-> reqs, prerequisites |-> prereqs, priority |-> 1]

Resource(id, cap, rate, avail) ==
  [id |-> id, name |-> ResourceName(id), type |-> "human",
   maxCapacity |-> cap, hourlyRate |-> rate, availability |-> avail]

\* ------------------------------------------------------------------------
\* topologicalSort as a function of the task list (DFS with visiting/visited)
\* ------------------------------------------------------------------------
\* tasks.find(t => t.id === taskId): index of the task, 0 when none
findTask(tasks, taskId) ==
  FirstIndex([i \in DOMAIN tasks |-> tasks[i].id], taskId)

RECURSIVE visit(_, _, _)
RECURSIVE visitPrerequisites(_, _, _, _)
\* st = [visited, visiting, result]
visit(tasks, taskId, st) ==
  IF taskId \in st.visiting THEN st
  ELSE IF taskId \in st.visited THEN st
  ELSE LET st1 == [st EXCEPT !.visiting = @ \cup {taskId}]
           i == findTask(tasks, taskId)
       IN IF i = 0
          THEN [st1 EXCEPT !.visiting = @ \ {taskId}]
          ELSE LET st2 == visitPrerequisites(tasks, tasks[i].prerequisites, 1, st1)
               IN [st2 EXCEPT !.result = Append(@, tasks[i]),
                              !.visited = @ \cup {taskId},
                              !.visiting = @ \ {taskId}]

\* task.prerequisites.forEach(prereq => visit(prereq)), from index j on
visitPrerequisites(tasks, prereqs, j, st) ==
  IF j > Len(prereqs) THEN st
  ELSE visitPrerequisites(tasks, prereqs, j + 1, visit(tasks, prereqs[j], st))

RECURSIVE visitAll(_, _, _)
\* tasks.forEach(task => visit(task.id)), from index i on
visitAll(tasks, i, st) ==
  IF i > Len(tasks) THEN st
  ELSE visitAll(tasks, i + 1, visit(tasks, tasks[i].id, st))

topologicalSort(tasks) ==
  visitAll(tasks, 1, [visited |-> {}, visiting |-> {}, result |-> <<>>]).result

\* ------------------------------------------------------------------------
\* getEarliestStartTime
\* ------------------------------------------------------------------------
\* schedule.find(s => s.taskId === prereqId): index, 0 when none
findEntry(schedule, taskId) ==
  FirstIndex([i \in DOMAIN schedule |-> schedule[i].taskId], taskId)

RECURSIVE maxPrereqEnd(_, _, _, _)
maxPrereqEnd(prereqs, schedule, j, earliestStart) ==
  IF j > Len(prereqs) THEN earliestStart
  ELSE LET e == findEntry(schedule, prereqs[j])
       IN maxPrereqEnd(prereqs, schedule, j + 1,
            IF e # 0 THEN Max(earliestStart, schedule[e].endPeriod) ELSE earliestStart)

\* a scheduler that holds a task back while a prerequisite has no entry
getEarliestStartTime_Blocked(task, schedule) ==
  IF \E j \in DOMAIN task.prerequisites : findEntry(schedule, task.prerequisites[j]) = 0
  THEN DefaultPeriods + 1
  ELSE maxPrereqEnd(task.prerequisites, schedule, 1, 0)

\* a scheduler that does not wait for prerequisites
getEarliestStartTime_NoWait(task, schedule) == 0

getEarliestStartTime(task, schedule) ==
  IF Len(task.prerequisites) = 0 THEN 0
  ELSE maxPrereqEnd(task.prerequisites, schedule, 1, 0)

\* ------------------------------------------------------------------------
\* scheduleTask
\* ------------------------------------------------------------------------
\* resources.find(r => r.id === resourceId): index, 0 when none
findResource(resources, resourceId) ==
  FirstIndex([i \in DOMAIN resources |-> resources[i].id], resourceId)

\* resource.availability[period % resource.availability.length] || 1
\* (an empty availability list indexes NaN: undefined || 1)
availabilityAt(resource, period) ==
  IF Len(resource.availability) = 0 THEN 1
  ELSE LET a == resource.availability[(period % Len(resource.availability)) + 1]
       IN IF a = 0 THEN 1 ELSE a

\* resource.maxCapacity * (resource.availability[...] || 1)
availableCapacity(resource, period) ==
  resource.maxCapacity * availabilityAt(resource, period)

\* the inner loop over [start, start + duration): the requirement fits in
\* every period of the interval
available(task, requirement, resource, resourceUtilization, start) ==
  \A period \in start..(start + task.duration - 1) :
    ~(resourceUtilization[resource.id][period + 1] + requirement.amount
        > availableCapacity(resource, period))

\* the loop over task.requiredResources: every requirement names a resource
\* of the list and is available for the whole duration
canSchedule(task, resources, resourceUtilization, start) ==
  \A k \in DOMAIN task.requiredResources :
    LET requirement == task.requiredResources[k]
        r == findResource(resources, requirement.resourceId)
    IN r # 0 /\ available(task, requirement, resources[r], resourceUtilization, start)

\* assignedResources[requirement.resourceId] = requirement.amount, in list
\* order (a later requirement of the same resource overwrites an earlier)
assigned(task) ==
  [rid \in {task.requiredResources[k].resourceId : k \in DOMAIN task.requiredResources} |->
     LET last == CHOOSE k \in DOMAIN task.requiredResources :
                   /\ task.requiredResources[k].resourceId = rid
                   /\ \A m \in DOMAIN task.requiredResources :
                        task.requiredResources[m].resourceId = rid => m <= k
     IN task.requiredResources[last].amount]

NoAssigned == [rid \in {} |-> 0]

\* a search that begins one period after the earliest start
firstStart_SkipsEarliest(task, resources, resourceUtilization, earliestStart, maxPeriods) ==
  LET starts == {start \in (earliestStart + 1)..(maxPeriods - task.duration) :
                   canSchedule(task, resources, resourceUtilization, start)}
  IN IF starts = {} THEN -1
     ELSE CHOOSE start \in starts : \A other \in starts : start <= other

\* for (let start = earliestStart; start <= maxPeriods - task.duration; start++):
\* the first start of the range the task can be scheduled at, -1 when none
firstStart(task, resources, resourceUtilization, earliestStart, maxPeriods) ==
  LET starts == {start \in earliestStart..(maxPeriods - task.duration) :
                   canSchedule(task, resources, resourceUtilization, start)}
  IN IF starts = {} THEN -1
     ELSE CHOOSE start \in starts : \A other \in starts : start <= other

scheduleTask(task, resources, resourceUtilization, earliestStart, maxPeriods) ==
  LET start == firstStart(task, resources, resourceUtilization, earliestStart, maxPeriods)
  IN IF start = -1
     THEN [startPeriod |-> -1, assignedResources |-> NoAssigned, conflicts |-> <<>>]
     ELSE [startPeriod |-> start, assignedResources |-> assigned(task), conflicts |-> <<>>]

\* ------------------------------------------------------------------------
\* optimizeResourceAllocation
\* ------------------------------------------------------------------------
\* a conflict string, kept as its template and the values put into it
Message(text, name, period, usage, capacity) ==
  [text |-> text, name |-> name, period |-> period, usage |-> usage,
   capacity |-> capacity]

\* `Cannot schedule task ${task.name} - insufficient resources`
cannotSchedule(task) ==
  Message("Cannot schedule task - insufficient resources", task.name, -1, 0, 0)

\* a horizon that ignores the deadline of the request
maxPeriodsOf_NoDeadline(projectDeadline) == DefaultPeriods

\* const maxPeriods = projectDeadline || 100  (an absent deadline is 0 here)
maxPeriodsOf(projectDeadline) ==
  IF projectDeadline # 0 THEN projectDeadline ELSE DefaultPeriods

\* resourceUtilization[resource.id] = new Array(maxPeriods).fill(0)
initialUtilization(resources, maxPeriods) ==
  [rid \in {resources[i].id : i \in DOMAIN resources} |-> [p \in 1..maxPeriods |-> 0]]

\* a commit that adds the amount to the first period of the task only
commitUtilization_FirstPeriod(resourceUtilization, startPeriod, duration, assignedResources) ==
  [rid \in DOMAIN resourceUtilization |->
    [p \in 1..Len(resourceUtilization[rid]) |->
       IF /\ rid \in DOMAIN assignedResources
          /\ startPeriod = p - 1
          /\ p - 1 < startPeriod + duration
       THEN resourceUtilization[rid][p] + assignedResources[rid]
       ELSE resourceUtilization[rid][p]]]

\* the loop "Update resource utilization" of one placed task
commitUtilization(resourceUtilization, startPeriod, duration, assignedResources) ==
  [rid \in DOMAIN resourceUtilization |->
    [p \in 1..Len(resourceUtilization[rid]) |->
       IF /\ rid \in DOMAIN assignedResources
          /\ startPeriod <= p - 1
          /\ p - 1 < startPeriod + duration
       THEN resourceUtilization[rid][p] + assignedResources[rid]
       ELSE resourceUtilization[rid][p]]]

\* an iteration that forgets the test startPeriod === -1
placeTask_Unchecked(st, task, resources, maxPeriods) ==
  LET earliestStart == getEarliestStartTime(task, st.schedule)
      placed == scheduleTask(task, resources, st.resourceUtilization,
                             earliestStart, maxPeriods)
  IN [schedule |-> Append(st.schedule,
                     [taskId |-> task.id,
                      startPeriod |-> placed.startPeriod,
                      endPeriod |-> placed.startPeriod + task.duration,
                      assignedResources |-> placed.assignedResources]),
      resourceUtilization |->
        commitUtilization(st.resourceUtilization, placed.startPeriod,
                          task.duration, placed.assignedResources),
      conflicts |-> st.conflicts \o placed.conflicts]

\* an iteration that reports nothing for a task it cannot place
placeTask_Silent(st, task, resources, maxPeriods) ==
  LET placed == scheduleTask(task, resources, st.resourceUtilization,
                             getEarliestStartTime(task, st.schedule),
                             maxPeriods)
  IN IF placed.startPeriod = -1
     THEN st
     ELSE [schedule |-> Append(st.schedule,
                          [taskId |-> task.id,
                           startPeriod |-> placed.startPeriod,
                           endPeriod |-> placed.startPeriod + task.duration,
                           assignedResources |-> placed.assignedResources]),
           resourceUtilization |->
             commitUtilization(st.resourceUtilization, placed.startPeriod,
                               task.duration, placed.assignedResources),
           conflicts |-> st.conflicts \o placed.conflicts]

\* one iteration of "for (const task of sortedTasks)";
\* st = [schedule, resourceUtilization, conflicts]
placeTask(st, task, resources, maxPeriods) ==
  LET earliestStart == getEarliestStartTime(task, st.schedule)
      placed == scheduleTask(task, resources, st.resourceUtilization,
                             earliestStart, maxPeriods)
  IN IF placed.startPeriod = -1
     THEN [st EXCEPT !.conflicts = Append(@, cannotSchedule(task))]
     ELSE [schedule |-> Append(st.schedule,
                          [taskId |-> task.id,
                           startPeriod |-> placed.startPeriod,
                           endPeriod |-> placed.startPeriod + task.duration,
                           assignedResources |-> placed.assignedResources]),
           resourceUtilization |->
             commitUtilization(st.resourceUtilization, placed.startPeriod,
                               task.duration, placed.assignedResources),
           conflicts |-> st.conflicts \o placed.conflicts]

\* a cost that leaves out the length of the task
itemCost_NoDuration(item, resources) ==
  LET cost == [rid \in DOMAIN item.assignedResources |->
                 LET r == FirstIndex([i \in DOMAIN resources |-> resources[i].id], rid)
                 IN IF r # 0
                    THEN item.assignedResources[rid] * resources[r].hourlyRate
                    ELSE 0]
  IN SumOver(cost, DOMAIN item.assignedResources)

\* the inner forEach of the cost loop, for one schedule entry
itemCost(item, resources) ==
  LET cost == [rid \in DOMAIN item.assignedResources |->
                 LET r == findResource(resources, rid)
                 IN IF r # 0
                    THEN item.assignedResources[rid] * resources[r].hourlyRate
                           * (item.endPeriod - item.startPeriod)
                    ELSE 0]
  IN SumOver(cost, DOMAIN item.assignedResources)

RECURSIVE computeTotalCost(_, _, _)
computeTotalCost(schedule, resources, i) ==
  IF i > Len(schedule) THEN 0
  ELSE itemCost(schedule[i], resources) + computeTotalCost(schedule, resources, i + 1)

RECURSIVE computeProjectDuration(_, _, _)
\* projectDuration = Math.max(projectDuration, item.endPeriod), from 0
computeProjectDuration(schedule, i, projectDuration) ==
  IF i > Len(schedule) THEN projectDuration
  ELSE computeProjectDuration(schedule, i + 1, Max(projectDuration, schedule[i].endPeriod))

RECURSIVE placeAll(_, _, _, _, _)
placeAll(st, sortedTasks, i, resources, maxPeriods) ==
  IF i > Len(sortedTasks) THEN st
  ELSE placeAll(placeTask(st, sortedTasks[i], resources, maxPeriods),
                sortedTasks, i + 1, resources, maxPeriods)

\* the whole function, as one value
optimizeResourceAllocation(tasks, resources, projectDeadline) ==
  LET sortedTasks == topologicalSort(tasks)
      maxPeriods == maxPeriodsOf(projectDeadline)
      st == placeAll([schedule |-> <<>>,
                      resourceUtilization |-> initialUtilization(resources, maxPeriods),
                      conflicts |-> <<>>],
                     sortedTasks, 1, resources, maxPeriods)
  IN [schedule |-> st.schedule,
      resourceUtilization |-> st.resourceUtilization,
      totalCost |-> computeTotalCost(st.schedule, resources, 1),
      projectDuration |-> computeProjectDuration(st.schedule, 1, 0),
      conflicts |-> st.conflicts]

\* ------------------------------------------------------------------------
\* performResourceLeveling
\* ------------------------------------------------------------------------
\* `Resource ${resource.name} over-allocated in period ${period}: ${usage}/${maxCapacity}`
overAllocated(resource, period, usage, maxCapacity) ==
  Message("Resource over-allocated in period", resource.name, period, usage, maxCapacity)

\* a capacity that takes a multiplier of 0 as it stands
levelingCapacity_ZeroKept(resource, period) ==
  IF Len(resource.availability) = 0 THEN resource.maxCapacity
  ELSE resource.maxCapacity
         * resource.availability[(period % Len(resource.availability)) + 1]

\* resource.maxCapacity * (resource.availability[period % length] || 1)
levelingCapacity(resource, period) ==
  resource.maxCapacity * availabilityAt(resource, period)

\* utilization.forEach((usage, period) => ...): the messages of the periods
\* whose usage exceeds the capacity, in period order
scanUtilization(resource, utilization) ==
  LET over == {p \in 0..(Len(utilization) - 1) :
                 utilization[p + 1] > levelingCapacity(resource, p)}
      nth(k) == CHOOSE p \in over : Cardinality({q \in over : q < p}) = k - 1
  IN [k \in 1..Cardinality(over) |->
        overAllocated(resource, nth(k), utilization[nth(k) + 1],
                      levelingCapacity(resource, nth(k)))]

RECURSIVE scanResources(_, _, _, _)
\* Object.entries(schedule.resourceUtilization).forEach(...); keys is the
\* insertion order of the object's keys
scanResources(resourceUtilization, keys, resources, i) ==
  IF i > Len(keys) THEN <<>>
  ELSE LET r == findResource(resources, keys[i])
       IN (IF r = 0 THEN <<>>
           ELSE scanUtilization(resources[r], resourceUtilization[keys[i]]))
          \o scanResources(resourceUtilization, keys, resources, i + 1)

performResourceLeveling(schedule, keys, resources) ==
  [schedule EXCEPT
     !.conflicts = schedule.conflicts
                     \o scanResources(schedule.resourceUtilization, keys, resources, 1)]

\* ------------------------------------------------------------------------
\* performScenarioAnalysis
\* ------------------------------------------------------------------------
Scenario(multiplier, timeConstraint) ==
  [resourceMultiplier |-> multiplier, timeConstraint |-> timeConstraint]

\* a map that scales the caller's objects in place
adjustResources_InPlace(baseResources, scenario) ==
  LET scaled == [i \in DOMAIN baseResources |->
                   [baseResources[i] EXCEPT
                      !.maxCapacity = @ * scenario.resourceMultiplier]]
  IN [adjusted |-> scaled, base |-> scaled]

\* baseResources.map(resource => ({...resource, maxCapacity: ... * multiplier})):
\* adjusted is the new list, base the caller's list after the map (the spread
\* builds new objects, so the caller's objects are not written)
adjustResources(baseResources, scenario) ==
  [adjusted |-> [i \in DOMAIN baseResources |->
                   [baseResources[i] EXCEPT
                      !.maxCapacity = @ * scenario.resourceMultiplier]],
   base |-> baseResources]

\* a quotient, kept as numerator and denominator
Ratio(num, den) == [num |-> num, den |-> den]

\* a callback with a horizon of its own when the scenario gives none
scenarioRun_OwnHorizon(baseTasks, baseResources, scenario) ==
  LET adjustedResources ==
        [i \in DOMAIN baseResources |->
           [baseResources[i] EXCEPT !.maxCapacity = @ * scenario.resourceMultiplier]]
      res == optimizeResourceAllocation(baseTasks, adjustedResources,
               IF scenario.timeConstraint # 0 THEN scenario.timeConstraint
               ELSE MaxDeadline)
  IN [scenario |-> scenario,
      result |-> res,
      metrics |->
        [efficiency |-> IF res.totalCost > 0
                        THEN Ratio(res.projectDuration * 1000, res.totalCost)
                        ELSE Ratio(0, 1),
         riskLevel |-> Ratio(Len(res.conflicts), Max(1, Len(baseTasks)))]]

\* the callback of scenarios.map
scenarioRun(baseTasks, baseResources, scenario) ==
  LET adjustedResources == adjustResources(baseResources, scenario).adjusted
      res == optimizeResourceAllocation(baseTasks, adjustedResources,
                                        scenario.timeConstraint)
  IN [scenario |-> scenario,
      result |-> res,
      metrics |->
        [efficiency |-> IF res.totalCost > 0
                        THEN Ratio(res.projectDuration * 1000, res.totalCost)
                        ELSE Ratio(0, 1),
         riskLevel |-> Ratio(Len(res.conflicts), Max(1, Len(baseTasks)))]]

\* ------------------------------------------------------------------------
\* Numbers of the decision tree: exact fractions num/den in lowest terms,
\* den > 0 (the rounding of floating point operations is not modelled)
\* ------------------------------------------------------------------------
Abs(x) == IF x < 0 THEN -x ELSE x

RECURSIVE GCD(_, _)
GCD(a, b) == IF b = 0 THEN a ELSE GCD(b, a % b)

Frac(n, d) ==
  LET g == GCD(Abs(n), Abs(d))
      s == IF d < 0 THEN -1 ELSE 1
  IN [num |-> (s * n) \div g, den |-> (s * d) \div g]

FracInt(n) == [num |-> n, den |-> 1]

FracAdd(a, b) == Frac(a.num * b.den + b.num * a.den, a.den * b.den)

FracSub(a, b) == Frac(a.num * b.den - b.num * a.den, a.den * b.den)

FracMul(a, b) == Frac(a.num * b.num, a.den * b.den)

\* a / b for b # 0
FracDiv(a, b) == Frac(a.num * b.den, a.den * b.num)

FracLess(a, b) == a.num * b.den < b.num * a.den

FracMax(a, b) == IF FracLess(a, b) THEN b ELSE a

FracMin(a, b) == IF FracLess(b, a) THEN b ELSE a

FracAbs(a) == [num |-> Abs(a.num), den |-> a.den]

\* Number.prototype.toFixed(0): the nearest integer, halves away from zero
toFixed0(a) ==
  LET r == (2 * Abs(a.num) + a.den) \div (2 * a.den)
  IN IF a.num < 0 THEN -r ELSE r

\* Number.prototype.toFixed(1), in tenths
toFixed1(a) == toFixed0(FracMul(a, FracInt(10)))

\* ------------------------------------------------------------------------
\* Decision tree (interface DecisionNode): the tree is an arena, a sequence
\* of nodes whose children are indices into it, the root at index 1; an
\* absent probability, cost or value is 0 (|| 0), absent children are <<>>;
\* probabilities are counted in tenths
\* ------------------------------------------------------------------------
Node(name, type, probability, cost, value, children) ==
  [name |-> name, type |-> type, probability |-> probability,
   cost |-> cost, value |-> value, children |-> children]

\* child.probability || 0
probabilityOf(node) == Frac(node.probability, 10)

\* an outcome that is worth its value, the cost forgotten
outcomeValue_Gross(node) == FracInt(node.value)

\* (node.value || 0) - (node.cost || 0)
outcomeValue(node) == FracInt(node.value - node.cost)

\* a maximum that stays at the value of the first child
maxChildValue_First(tree, children, k, best) == best

RECURSIVE calculateExpectedValue(_, _)
RECURSIVE maxChildValue(_, _, _, _)
RECURSIVE weightedSum(_, _, _, _)

calculateExpectedValue(tree, n) ==
  LET node == tree[n]
  IN IF node.type = "outcome" THEN outcomeValue(node)
     ELSE IF Len(node.children) = 0 THEN FracInt(0)
     ELSE IF node.type = "decision"
       THEN maxChildValue(tree, node.children, 2,
                          calculateExpectedValue(tree, node.children[1]))
     ELSE IF node.type = "chance"
       THEN weightedSum(tree, node.children, 1, FracInt(0))
     ELSE FracInt(0)

\* Math.max(...node.children.map(child => calculateExpectedValue(child)))
maxChildValue(tree, children, k, best) ==
  IF k > Len(children) THEN best
  ELSE maxChildValue(tree, children, k + 1,
                     FracMax(best, calculateExpectedValue(tree, children[k])))

\* node.children.reduce((sum, child) =>
\*   sum + (child.probability || 0) * calculateExpectedValue(child), 0)
weightedSum(tree, children, k, sum) ==
  IF k > Len(children) THEN sum
  ELSE weightedSum(tree, children, k + 1,
         FracAdd(sum, FracMul(probabilityOf(tree[children[k]]),
                              calculateExpectedValue(tree, children[k]))))

\* names whose lower case includes 'success' / 'failure'
SuccessNames == {"Success", "Partial success"}

FailureNames == {"Failure"}

\* node.children.find(child => child.name.toLowerCase().includes(...)):
\* the node's index of the child, 0 when there is none
findSuccess(tree, node) ==
  IF \E k \in DOMAIN node.children : tree[node.children[k]].name \in SuccessNames
  THEN node.children[CHOOSE k \in DOMAIN node.children :
         /\ tree[node.children[k]].name \in SuccessNames
         /\ \A j \in 1..(k - 1) : tree[node.children[j]].name \notin SuccessNames]
  ELSE 0

findFailure(tree, node) ==
  IF \E k \in DOMAIN node.children : tree[node.children[k]].name \in FailureNames
  THEN node.children[CHOOSE k \in DOMAIN node.children :
         /\ tree[node.children[k]].name \in FailureNames
         /\ \A j \in 1..(k - 1) : tree[node.children[j]].name \notin FailureNames]
  ELSE 0

\* calculateRiskMetrics returned null
NoMetrics ==
  [isNull |-> TRUE, successProbability |-> FracInt(0),
   failureProbability |-> FracInt(0), roi |-> FracInt(0),
   avgCost |-> FracInt(0), worstCase |-> 0, riskLevel |-> "Unknown"]

\* roi = avgCost > 0 ? ((avgValue - avgCost) / avgCost * 100) : 0
roiOf(avgValue, avgCost) ==
  IF FracLess(FracInt(0), avgCost)
  THEN FracMul(FracDiv(FracSub(avgValue, avgCost), avgCost), FracInt(100))
  ELSE FracInt(0)

\* failureProbability > 0.3 ? 'High' : failureProbability > 0.15 ? 'Medium' : 'Low'
riskLevelOf(failureProbability) ==
  IF FracLess(Frac(3, 10), failureProbability) THEN "High"
  ELSE IF FracLess(Frac(15, 100), failureProbability) THEN "Medium"
  ELSE "Low"

\* successProbability * success + failureProbability * failure
weighted(successProbability, success, failureProbability, failure) ==
  FracAdd(FracMul(successProbability, FracInt(success)),
          FracMul(failureProbability, FracInt(failure)))

\* Math.min(success.value - success.cost, failure.value - failure.cost)
worstCaseOf(successOutcome, failureOutcome) ==
  IF successOutcome.value - successOutcome.cost
       <= failureOutcome.value - failureOutcome.cost
  THEN successOutcome.value - successOutcome.cost
  ELSE failureOutcome.value - failureOutcome.cost

\* the object calculateRiskMetrics returns
riskMetricsOf(successProbability, failureProbability, avgCost, avgValue, worstCase) ==
  [isNull |-> FALSE,
   successProbability |-> successProbability,
   failureProbability |-> failureProbability,
   roi |-> roiOf(avgValue, avgCost),
   avgCost |-> avgCost,
   worstCase |-> worstCase,
   riskLevel |-> riskLevelOf(failureProbability)]

\* calculateRiskMetrics once both outcomes are found
outcomeMetrics(successOutcome, failureOutcome) ==
  riskMetricsOf(probabilityOf(successOutcome), probabilityOf(failureOutcome),
                weighted(probabilityOf(successOutcome), successOutcome.cost,
                         probabilityOf(failureOutcome), failureOutcome.cost),
                weighted(probabilityOf(successOutcome), successOutcome.value,
                         probabilityOf(failureOutcome), failureOutcome.value),
                worstCaseOf(successOutcome, failureOutcome))

\* the two outcomes found by name, 0 for one that is not there
foundMetrics(tree, s, f) ==
  IF s = 0 \/ f = 0 THEN NoMetrics ELSE outcomeMetrics(tree[s], tree[f])

calculateRiskMetrics(tree, n) ==
  foundMetrics(tree, findSuccess(tree, tree[n]), findFailure(tree, tree[n]))

\* riskScore of an option with risk metrics
riskScore(riskMetrics) ==
  FracAdd(FracAdd(FracMul(riskMetrics.successProbability, FracInt(30)),
                  FracInt(IF riskMetrics.riskLevel = "Low" THEN 25
                          ELSE IF riskMetrics.riskLevel = "Medium" THEN 15
                          ELSE 5)),
          FracAdd(FracMin(FracDiv(riskMetrics.roi, FracInt(10)), FracInt(20)),
                  FracMax(FracInt(0), Frac(riskMetrics.worstCase, 10000))))

\* a line of riskAnalysis.reasoning: the template and the values put into it
Reason(text, values) == [text |-> text, values |-> values]

\* no riskAnalysis in the returned object
NoRiskAnalysis ==
  [isUndefined |-> TRUE, bestOption |-> "", riskLevel |-> "", reasoning |-> <<>>]

\* the call raised (TypeError: reading a property of undefined)
Raised == [raised |-> TRUE, path |-> <<>>, riskAnalysis |-> NoRiskAnalysis]

\* a reduce that keeps the later of two children of the same probability
mostLikelyChild_LastOfTies(tree, node) ==
  node.children[CHOOSE k \in DOMAIN node.children :
    /\ \A j \in DOMAIN node.children :
         tree[node.children[j]].probability <= tree[node.children[k]].probability
    /\ \A j \in (k + 1)..Len(node.children) :
         tree[node.children[j]].probability < tree[node.children[k]].probability]

\* node.children.reduce((best, current) =>
\*   (current.probability || 0) > (best.probability || 0) ? current : best):
\* the first child of the highest probability
mostLikelyChild(tree, node) ==
  node.children[CHOOSE k \in DOMAIN node.children :
    /\ \A j \in DOMAIN node.children :
         tree[node.children[j]].probability <= tree[node.children[k]].probability
    /\ \A j \in 1..(k - 1) :
         tree[node.children[j]].probability < tree[node.children[k]].probability]

\* childAnalysis.sort((a, b) => b.expectedValue - a.expectedValue) is stable:
\* the position in values of the first greatest value among the positions in
\* among
firstGreatest(values, among) ==
  CHOOSE k \in among :
    /\ \A j \in among : ~FracLess(values[k], values[j])
    /\ \A j \in among : (j < k) => FracLess(values[j], values[k])

\* percentageDifference = averageValue > 0 ? (valueDifference / averageValue) * 100 : 0
percentageOf(valueDifference, averageValue) ==
  IF FracLess(FracInt(0), averageValue)
  THEN FracMul(FracDiv(valueDifference, averageValue), FracInt(100))
  ELSE FracInt(0)

percentageDifference(topOption, secondOption) ==
  percentageOf(
    FracAbs(FracSub(topOption.expectedValue, secondOption.expectedValue)),
    FracDiv(FracAdd(topOption.expectedValue, secondOption.expectedValue),
            FracInt(2)))

\* percentageDifference < 5 && topOption.riskMetrics && secondOption.riskMetrics
similar(topOption, secondOption) ==
  /\ FracLess(percentageDifference(topOption, secondOption), FracInt(5))
  /\ ~topOption.riskMetrics.isNull
  /\ ~secondOption.riskMetrics.isNull

\* a comparison of the scores that never prefers the second option
secondScoresHigher_Never(topOption, secondOption) == FALSE

\* secondScore > topScore
secondScoresHigher(topOption, secondOption) ==
  FracLess(riskScore(topOption.riskMetrics), riskScore(secondOption.riskMetrics))

\* the lines pushed when the second option is taken
secondReasoning(topOption, secondOption) ==
  <<Reason("offers better risk-adjusted returns", <<secondOption.name>>),
    Reason("Higher success probability",
           <<toFixed0(FracMul(secondOption.riskMetrics.successProbability,
                              FracInt(100))),
             toFixed0(FracMul(topOption.riskMetrics.successProbability,
                              FracInt(100)))>>)>>
  \o (IF FracLess(FracMul(topOption.riskMetrics.roi, Frac(3, 2)),
                  secondOption.riskMetrics.roi)
      THEN <<Reason("Significantly better ROI",
                    <<toFixed1(secondOption.riskMetrics.roi),
                      toFixed1(topOption.riskMetrics.roi)>>)>>
      ELSE <<>>)
  \o (IF secondOption.riskMetrics.riskLevel # topOption.riskMetrics.riskLevel
      THEN <<Reason("Lower risk profile",
                    <<secondOption.riskMetrics.riskLevel,
                      topOption.riskMetrics.riskLevel>>)>>
      ELSE <<>>)

\* reasoning, given whether the values are similar and the second is taken
reasoningOf(topOption, secondOption, close, takeSecond) ==
  IF close
  THEN <<Reason("Expected values are very close",
                <<toFixed0(topOption.expectedValue),
                  toFixed0(secondOption.expectedValue)>>)>>
       \o (IF takeSecond THEN secondReasoning(topOption, secondOption)
           ELSE <<Reason("provides the best balance of return and risk",
                         <<topOption.name>>)>>)
  ELSE <<Reason("Clear expected value advantage",
                <<toFixed0(topOption.expectedValue)>>)>>

\* return { path: result.path, riskAnalysis }
optionResult(bestOption, reasoning) ==
  [raised |-> FALSE,
   path |-> bestOption.path.path,
   riskAnalysis |->
     [isUndefined |-> FALSE,
      bestOption |-> bestOption.name,
      riskLevel |-> bestOption.riskMetrics.riskLevel,
      reasoning |-> reasoning]]

decided(topOption, secondOption, close, takeSecond) ==
  optionResult(IF takeSecond THEN secondOption ELSE topOption,
               reasoningOf(topOption, secondOption, close, takeSecond))

\* a choice that always names the top option, whichever path it returns
whenSimilar_NamesTop(topOption, secondOption, close) ==
  [decided(topOption, secondOption, close,
           close /\ secondScoresHigher(topOption, secondOption))
     EXCEPT !.riskAnalysis.bestOption = topOption.name]

whenSimilar(topOption, secondOption, close) ==
  decided(topOption, secondOption, close,
          close /\ secondScoresHigher(topOption, secondOption))

\* the decision branch once both options exist: the option taken and the
\* riskAnalysis; an option is [name, expectedValue, riskMetrics, path]
chooseOption(topOption, secondOption) ==
  whenSimilar(topOption, secondOption, similar(topOption, secondOption))

\* childAnalysis[0] and childAnalysis[1] after the sort, top being the
\* position of the first
sortedOptions(childAnalysis, values, top) ==
  chooseOption(childAnalysis[top],
               childAnalysis[firstGreatest(values, DOMAIN childAnalysis \ {top})])

expectedValues(childAnalysis) ==
  [k \in DOMAIN childAnalysis |-> childAnalysis[k].expectedValue]

withValues(childAnalysis, values) ==
  sortedOptions(childAnalysis, values, firstGreatest(values, DOMAIN childAnalysis))

\* the decision branch after node.children.map: a child's walk raised, or
\* there is no second option (TypeError), or an option is chosen
decisionBranch(childAnalysis) ==
  IF \E k \in DOMAIN childAnalysis : childAnalysis[k].path.raised
  THEN Raised
  ELSE IF Len(childAnalysis) = 1
  THEN Raised
  ELSE withValues(childAnalysis, expectedValues(childAnalysis))

\* one element of childAnalysis, its path walked already
analysisOf(tree, child, walked) ==
  [name |-> tree[child].name,
   expectedValue |-> calculateExpectedValue(tree, child),
   riskMetrics |-> calculateRiskMetrics(tree, child),
   path |-> walked]

RECURSIVE findBestPathWithRiskAnalysis(_, _, _)
findBestPathWithRiskAnalysis(tree, n, currentPath) ==
  IF tree[n].type = "outcome" \/ Len(tree[n].children) = 0
  THEN [raised |-> FALSE, path |-> Append(currentPath, tree[n].name),
        riskAnalysis |-> NoRiskAnalysis]
  ELSE IF tree[n].type = "decision"
  THEN decisionBranch(
         [k \in DOMAIN tree[n].children |->
            analysisOf(tree, tree[n].children[k],
                       findBestPathWithRiskAnalysis(
                         tree, tree[n].children[k],
                         Append(currentPath, tree[n].name)))])
  ELSE findBestPathWithRiskAnalysis(tree, mostLikelyChild(tree, tree[n]),
                                    Append(currentPath, tree[n].name))

\* analyzeDecisionTree did not return
NoAnalysis ==
  [expectedValue |-> FracInt(0), bestPath |-> <<>>,
   sensitivityAnalysis |-> <<>>, riskAnalysis |-> NoRiskAnalysis]

\* the value returned, or raised: the best path is walked first, the
\* expected value of the root is computed when the walk has returned
analyzeDecisionTree(tree) ==
  LET walk == findBestPathWithRiskAnalysis(tree, 1, <<>>)
  IN IF walk.raised THEN [raised |-> TRUE, result |-> NoAnalysis]
     ELSE [raised |-> FALSE,
           result |-> [expectedValue |-> calculateExpectedValue(tree, 1),
                       bestPath |-> walk.path,
                       sensitivityAnalysis |-> <<>>,
                       riskAnalysis |-> walk.riskAnalysis]]

\* ------------------------------------------------------------------------
\* Numbers of the calculations: fractions, and the values a division by
\* zero gives (0 / 0 is NaN, x / 0 is Infinity or -Infinity)
\* ------------------------------------------------------------------------
NaN == [num |-> 0, den |-> 0]

Infinity == [num |-> 1, den |-> 0]

NegativeInfinity == [num |-> -1, den |-> 0]

isFinite(a) == a.den # 0

\* a / b of two finite numbers
divide(a, b) ==
  IF b.num # 0 THEN FracDiv(a, b)
  ELSE IF a.num = 0 THEN NaN
  ELSE IF a.num > 0 THEN Infinity
  ELSE NegativeInfinity

\* a + b of a finite number a and a number b that is finite or NaN
plus(a, b) == IF isFinite(b) THEN FracAdd(a, b) ELSE b

\* the greatest k of lo..hi with k * k <= n, for lo * lo <= n
RECURSIVE rootBetween(_, _, _)
rootBetween(n, lo, hi) ==
  IF lo = hi THEN lo
  ELSE IF ((lo + hi + 1) \div 2) * ((lo + hi + 1) \div 2) <= n
  THEN rootBetween(n, (lo + hi + 1) \div 2, hi)
  ELSE rootBetween(n, lo, ((lo + hi + 1) \div 2) - 1)

\* Math.sqrt of a fraction that is not negative: the root itself when the
\* fraction is a square, else the greatest multiple of 1 / den below it
sqrt(a) ==
  Frac(rootBetween(a.num * a.den, 0, IF a.num * a.den < 46340
                                      THEN a.num * a.den ELSE 46340),
       a.den)

\* ------------------------------------------------------------------------
\* calculateDelphiEstimation; confidence is counted in tenths
\* ------------------------------------------------------------------------
ExpertEstimate(expertId, optimistic, mostLikely, pessimistic, confidence) ==
  [expertId |-> expertId, optimistic |-> optimistic,
   mostLikely |-> mostLikely, pessimistic |-> pessimistic,
   confidence |-> confidence]

\* (est.optimistic + 4 * est.mostLikely + est.pessimistic) / 6
pertEstimate(est) ==
  Frac(est.optimistic + 4 * est.mostLikely + est.pessimistic, 6)

pertEstimates(estimates) ==
  [k \in DOMAIN estimates |-> pertEstimate(estimates[k])]

confidenceOf(est) == Frac(est.confidence, 10)

\* reduce((sum, est) => sum + est, 0) over the first k elements
RECURSIVE sumTo(_, _)
sumTo(values, k) ==
  IF k = 0 THEN FracInt(0) ELSE FracAdd(sumTo(values, k - 1), values[k])

\* estimates.reduce(... pertEstimates[idx] * est.confidence, 0) / totalConfidence
weightedAverage(weightedTotal, totalConfidence) ==
  divide(weightedTotal, totalConfidence)

\* Math.sqrt(pertEstimates.reduce(... Math.pow(est - average, 2), 0) / length)
stdDevOf(values, average) ==
  sqrt(FracDiv(sumTo([k \in DOMAIN values |->
                        FracMul(FracSub(values[k], average),
                                FracSub(values[k], average))],
                     Len(values)),
               FracInt(Len(values))))

\* average > 0 ? 1 - (stdDev / average) : 0
consensusOf(stdDev, average) ==
  IF FracLess(FracInt(0), average)
  THEN FracSub(FracInt(1), FracDiv(stdDev, average))
  ELSE FracInt(0)

\* the object returned for one expert or more
delphiResult(perts, average, confidenceWeightedAverage) ==
  [finalEstimate |-> confidenceWeightedAverage,
   consensus |-> FracMax(FracInt(0),
                         FracMin(FracInt(1),
                                 consensusOf(stdDevOf(perts, average), average))),
   pert |-> average,
   confidenceWeightedAverage |-> confidenceWeightedAverage]

delphiOf(estimates, perts, average) ==
  delphiResult(perts, average,
    weightedAverage(
      sumTo([k \in DOMAIN estimates |->
               FracMul(perts[k], confidenceOf(estimates[k]))], Len(estimates)),
      sumTo([k \in DOMAIN estimates |-> confidenceOf(estimates[k])],
            Len(estimates))))

calculateDelphiEstimation(estimates) ==
  IF Len(estimates) = 0
  THEN [finalEstimate |-> FracInt(0), consensus |-> FracInt(0),
        pert |-> FracInt(0), confidenceWeightedAverage |-> FracInt(0)]
  ELSE delphiOf(estimates, pertEstimates(estimates),
                FracDiv(sumTo(pertEstimates(estimates), Len(estimates)),
                        FracInt(Len(estimates))))

\* ------------------------------------------------------------------------
\* calculatePaybackPeriod; cash flows and the investment are whole amounts
\* ------------------------------------------------------------------------
\* the loop from the period (counted from 0) on, cumulativeCashFlow being
\* the value before the cash flow of the period is added
RECURSIVE paybackFrom(_, _, _)
paybackFrom(cashFlows, period, cumulativeCashFlow) ==
  IF period >= Len(cashFlows) THEN FracInt(Len(cashFlows))
  ELSE IF cumulativeCashFlow + cashFlows[period + 1] >= 0
  THEN plus(FracInt(period),
            divide(FracInt(-((cumulativeCashFlow + cashFlows[period + 1])
                             - cashFlows[period + 1])),
                   FracInt(cashFlows[period + 1])))
  ELSE paybackFrom(cashFlows, period + 1,
                   cumulativeCashFlow + cashFlows[period + 1])

calculatePaybackPeriod(cashFlows, initialInvestment) ==
  paybackFrom(cashFlows, 0, -initialInvestment)

\* ------------------------------------------------------------------------
\* calculateNPV and calculateIRR
\* ------------------------------------------------------------------------
\* Math.pow(base, exponent) for an exponent 0, 1, 2, ...
RECURSIVE pow(_, _)
pow(base, exponent) ==
  IF exponent = 0 THEN FracInt(1)
  ELSE FracMul(pow(base, exponent - 1), base)

\* an NPV whose cash flow of period t is discounted over t periods
RECURSIVE discounted_FromZero(_, _, _, _)
discounted_FromZero(cashFlows, discountRate, npv, k) ==
  IF k = 0 THEN npv
  ELSE FracAdd(discounted_FromZero(cashFlows, discountRate, npv, k - 1),
               FracDiv(FracInt(cashFlows[k]),
                       pow(FracAdd(FracInt(1), discountRate), k - 1)))

\* cashFlows.forEach((cashFlow, period) =>
\*   npv += cashFlow / Math.pow(1 + discountRate, period + 1)),
\* over the first k cash flows
RECURSIVE discounted(_, _, _, _)
discounted(cashFlows, discountRate, npv, k) ==
  IF k = 0 THEN npv
  ELSE FracAdd(discounted(cashFlows, discountRate, npv, k - 1),
               FracDiv(FracInt(cashFlows[k]),
                       pow(FracAdd(FracInt(1), discountRate), k)))

\* for a discountRate other than -1
calculateNPV(cashFlows, discountRate, initialInvestment) ==
  discounted(cashFlows, discountRate, FracInt(-initialInvestment),
             Len(cashFlows))

\* const allCashFlows = [-initialInvestment, ...cashFlows]
allCashFlowsOf(cashFlows, initialInvestment) ==
  <<-initialInvestment>> \o cashFlows

\* npv += cf / Math.pow(1 + rate, period), over the first k elements of
\* allCashFlows (periods 0 to k - 1)
RECURSIVE npvAt(_, _, _)
npvAt(allCashFlows, rate, k) ==
  IF k = 0 THEN FracInt(0)
  ELSE FracAdd(npvAt(allCashFlows, rate, k - 1),
               FracDiv(FracInt(allCashFlows[k]),
                       pow(FracAdd(FracInt(1), rate), k - 1)))

\* if (period > 0) derivative -= period * cf / Math.pow(1 + rate, period + 1)
RECURSIVE derivativeAt(_, _, _)
derivativeAt(allCashFlows, rate, k) ==
  IF k <= 1 THEN FracInt(0)
  ELSE FracSub(derivativeAt(allCashFlows, rate, k - 1),
               FracDiv(FracInt((k - 1) * allCashFlows[k]),
                       pow(FracAdd(FracInt(1), rate), k)))

\* the rate can be worked with: it is a number and 1 + rate is not 0
regular(rate) == isFinite(rate) /\ FracAdd(FracInt(1), rate).num # 0

\* if (Math.abs(npv) < 0.01) break
converged(allCashFlows, rate) ==
  /\ regular(rate)
  /\ FracLess(FracAbs(npvAt(allCashFlows, rate, Len(allCashFlows))),
              Frac(1, 100))

\* if (derivative === 0) break
flat(allCashFlows, rate) ==
  /\ regular(rate)
  /\ derivativeAt(allCashFlows, rate, Len(allCashFlows)).num = 0

\* rate = rate - npv / derivative; with 1 + rate = 0 the powers are 0, npv
\* and derivative are infinite or NaN and so is their quotient
newtonStep(allCashFlows, rate) ==
  IF ~regular(rate) THEN NaN
  ELSE FracSub(rate,
               FracDiv(npvAt(allCashFlows, rate, Len(allCashFlows)),
                       derivativeAt(allCashFlows, rate, Len(allCashFlows))))

\* return rate * 100
percent(rate) == IF isFinite(rate) THEN FracMul(rate, FracInt(100)) ELSE NaN

\* ------------------------------------------------------------------------
\* Natural numbers of any size: the limbs of a number in base 2^15, the
\* least significant first, the most significant not 0; 0 is <<>>
\* ------------------------------------------------------------------------
RECURSIVE twoTo(_)
twoTo(k) == IF k = 0 THEN 1 ELSE 2 * twoTo(k - 1)

Limb == twoTo(15)

limbAt(a, k) == IF k <= Len(a) THEN a[k] ELSE 0

RECURSIVE bigTrim(_)
bigTrim(a) ==
  IF a = <<>> THEN <<>>
  ELSE IF a[Len(a)] = 0 THEN bigTrim(SubSeq(a, 1, Len(a) - 1))
  ELSE a

bigOf(n) ==
  bigTrim(<<n % Limb, (n \div Limb) % Limb, n \div (Limb * Limb)>>)

RECURSIVE bigAddFrom(_, _, _, _)
bigAddFrom(a, b, k, carry) ==
  IF k > Len(a) /\ k > Len(b)
  THEN IF carry = 0 THEN <<>> ELSE <<carry>>
  ELSE <<(limbAt(a, k) + limbAt(b, k) + carry) % Limb>>
       \o bigAddFrom(a, b, k + 1, (limbAt(a, k) + limbAt(b, k) + carry) \div Limb)

bigAdd(a, b) == bigAddFrom(a, b, 1, 0)

\* a - b for a >= b
RECURSIVE bigSubFrom(_, _, _, _)
bigSubFrom(a, b, k, borrow) ==
  IF k > Len(a) THEN <<>>
  ELSE <<(limbAt(a, k) - limbAt(b, k) - borrow + Limb) % Limb>>
       \o bigSubFrom(a, b, k + 1,
                     IF limbAt(a, k) - limbAt(b, k) - borrow < 0 THEN 1 ELSE 0)

bigSub(a, b) == bigTrim(bigSubFrom(a, b, 1, 0))

\* -1, 0, 1 as a < b, a = b, a > b, looking at the limbs from k down
RECURSIVE bigCompareFrom(_, _, _)
bigCompareFrom(a, b, k) ==
  IF k = 0 THEN 0
  ELSE IF a[k] < b[k] THEN -1
  ELSE IF a[k] > b[k] THEN 1
  ELSE bigCompareFrom(a, b, k - 1)

bigCompare(a, b) ==
  IF Len(a) < Len(b) THEN -1
  ELSE IF Len(a) > Len(b) THEN 1
  ELSE bigCompareFrom(a, b, Len(a))

\* a * m for 0 <= m < 2^15
RECURSIVE bigTimesFrom(_, _, _, _)
bigTimesFrom(a, m, k, carry) ==
  IF k > Len(a)
  THEN IF carry = 0 THEN <<>> ELSE <<carry>>
  ELSE <<(a[k] * m + carry) % Limb>>
       \o bigTimesFrom(a, m, k + 1, (a[k] * m + carry) \div Limb)

bigTimes(a, m) == IF m = 0 THEN <<>> ELSE bigTimesFrom(a, m, 1, 0)

\* a * 2^(15 n)
bigShiftLimbs(a, n) ==
  IF a = <<>> THEN <<>> ELSE [k \in 1..n |-> 0] \o a

RECURSIVE bigMulFrom(_, _, _)
bigMulFrom(a, b, j) ==
  IF j > Len(b) THEN <<>>
  ELSE bigAdd(bigShiftLimbs(bigTimes(a, b[j]), j - 1), bigMulFrom(a, b, j + 1))

bigMul(a, b) == bigMulFrom(a, b, 1)

\* a * 2^n
bigShiftLeft(a, n) ==
  bigShiftLimbs(bigTimes(a, twoTo(n % 15)), n \div 15)

\* floor(a / d) for 0 < d <= 2^15, from limb k down, rem being what is left
\* of the limbs above
RECURSIVE bigOverFrom(_, _, _, _)
bigOverFrom(a, d, k, rem) ==
  IF k = 0 THEN <<>>
  ELSE bigOverFrom(a, d, k - 1, (rem * Limb + a[k]) % d)
       \o <<(rem * Limb + a[k]) \div d>>

bigOver(a, d) == bigTrim(bigOverFrom(a, d, Len(a), 0))

\* floor(a / 2^n)
bigShiftRight(a, n) ==
  IF n \div 15 >= Len(a) THEN <<>>
  ELSE bigOver(SubSeq(a, (n \div 15) + 1, Len(a)), twoTo(n % 15))

\* the number of bits of n, 0 <= n < 2^15
RECURSIVE bitsOf(_)
bitsOf(n) == IF n = 0 THEN 0 ELSE 1 + bitsOf(n \div 2)

bigBits(a) ==
  IF a = <<>> THEN 0 ELSE 15 * (Len(a) - 1) + bitsOf(a[Len(a)])

bigOdd(a) == a # <<>> /\ a[1] % 2 = 1

\* the value of a number below 2^30
bigSmall(a) == limbAt(a, 1) + Limb * limbAt(a, 2)

\* floor(sqrt(a)), digit by digit in base 2^7 from the top: a is read in
\* groups of 14 bits, the digit d of a group is the largest one with
\* (2 * 2^7 * root + d) * d not above what is left
rootGroup(a, j) == bigSmall(bigShiftRight(a, 14 * j)) % 16384

rootTaken(root, d) == bigTimes(bigAdd(bigTimes(root, 256), bigOf(d)), d)

rootFits(root, left, d) == bigCompare(rootTaken(root, d), left) <= 0

rootDigit(root, left) ==
  CHOOSE d \in 0..127 :
    rootFits(root, left, d) /\ (d = 127 \/ ~rootFits(root, left, d + 1))

RECURSIVE bigRootFrom(_, _, _, _)
bigRootWith(a, j, root, left, d) ==
  bigRootFrom(a, j - 1, bigAdd(bigTimes(root, 128), bigOf(d)),
              bigSub(left, rootTaken(root, d)))

bigRootAt(a, j, root, left) ==
  bigRootWith(a, j, root, left, rootDigit(root, left))

bigRootFrom(a, j, root, rest) ==
  IF j < 0 THEN root
  ELSE bigRootAt(a, j, root,
                 bigAdd(bigShiftLeft(rest, 14), bigOf(rootGroup(a, j))))

bigRoot(a) == bigRootFrom(a, (bigBits(a) + 13) \div 14 - 1, <<>>, <<>>)

\* ------------------------------------------------------------------------
\* Numbers of JavaScript: IEEE 754 binary64, sign * mant * 2^exp with mant of
\* exactly 53 bits, or 0; every operation rounds the exact result to the
\* nearest such number, ties to the even mantissa.  The values met here are
\* far from the subnormal and the overflow range
\* ------------------------------------------------------------------------
Zero == [sign |-> 1, mant |-> <<>>, exp |-> 0]

\* the mantissa q and the exponent e after the cut of the low bits: rounded
\* up when more than half was cut, or half with q odd
roundedUp(sign, q, e, up) ==
  IF ~up THEN [sign |-> sign, mant |-> q, exp |-> e]
  ELSE IF bigBits(bigAdd(q, <<1>>)) > 53
  THEN [sign |-> sign, mant |-> bigShiftRight(bigAdd(q, <<1>>), 1), exp |-> e + 1]
  ELSE [sign |-> sign, mant |-> bigAdd(q, <<1>>), exp |-> e]

cutTo(sign, m, e, sticky, shift, q) ==
  roundedUp(sign, q, e + shift,
            LET half == bigCompare(bigSub(m, bigShiftLeft(q, shift)),
                                   bigShiftLeft(<<1>>, shift - 1))
            IN  half > 0 \/ (half = 0 /\ (sticky \/ bigOdd(q))))

\* sign * m * 2^e, and a little more when sticky, as a double
roundToDouble(sign, m, e, sticky) ==
  IF m = <<>> THEN Zero
  ELSE IF bigBits(m) <= 53
  THEN [sign |-> sign, mant |-> bigShiftLeft(m, 53 - bigBits(m)),
        exp |-> e - (53 - bigBits(m))]
  ELSE cutTo(sign, m, e, sticky, bigBits(m) - 53,
             bigShiftRight(m, bigBits(m) - 53))

dblOf(n) ==
  IF n < 0 THEN roundToDouble(-1, bigOf(-n), 0, FALSE)
  ELSE roundToDouble(1, bigOf(n), 0, FALSE)

dblNeg(a) == IF a.mant = <<>> THEN a ELSE [a EXCEPT !.sign = -a.sign]

\* a + b for a, b not 0 with the mantissas ma, mb brought to the exponent e
dblAddAt(a, b, ma, mb, e) ==
  IF a.sign = b.sign THEN roundToDouble(a.sign, bigAdd(ma, mb), e, FALSE)
  ELSE IF bigCompare(ma, mb) >= 0
  THEN roundToDouble(a.sign, bigSub(ma, mb), e, FALSE)
  ELSE roundToDouble(b.sign, bigSub(mb, ma), e, FALSE)

dblAdd(a, b) ==
  IF a.mant = <<>> THEN b
  ELSE IF b.mant = <<>> THEN a
  ELSE IF a.exp >= b.exp
  THEN dblAddAt(a, b, bigShiftLeft(a.mant, a.exp - b.exp), b.mant, b.exp)
  ELSE dblAddAt(a, b, a.mant, bigShiftLeft(b.mant, b.exp - a.exp), a.exp)

dblSub(a, b) == dblAdd(a, dblNeg(b))

dblMul(a, b) ==
  roundToDouble(a.sign * b.sign, bigMul(a.mant, b.mant), a.exp + b.exp, FALSE)

\* a / n for a whole number 0 < n < 2^15: the quotient of the mantissa with
\* 20 more bits, sticky when the division left a remainder
dblOverWith(a, n, m, q) ==
  roundToDouble(a.sign, q, a.exp - 20, bigTimes(q, n) # m)

dblOver(a, n) ==
  IF a.mant = <<>> THEN Zero
  ELSE dblOverWith(a, n, bigShiftLeft(a.mant, 20),
                   bigOver(bigShiftLeft(a.mant, 20), n))

\* Math.sqrt of a >= 0: the root of the mantissa brought to an even exponent
\* e with room for the bits of the root, sticky when the root is not exact
dblSqrtWith(m, e, root) ==
  roundToDouble(1, root, e \div 2, bigMul(root, root) # m)

dblSqrt(a) ==
  IF a.mant = <<>> THEN Zero
  ELSE dblSqrtWith(bigShiftLeft(a.mant, 56 + (a.exp % 2)),
                   a.exp - 56 - (a.exp % 2),
                   bigRoot(bigShiftLeft(a.mant, 56 + (a.exp % 2))))

\* a < b
dblLess(a, b) == dblSub(a, b).sign = -1

\* Math.floor of 0 <= a < 2^30 as a whole number
dblFloor(a) ==
  IF a.mant = <<>> THEN 0
  ELSE IF a.exp >= 0 THEN bigSmall(bigShiftLeft(a.mant, a.exp))
  ELSE bigSmall(bigShiftRight(a.mant, -a.exp))

\* ------------------------------------------------------------------------
\* monteCarloSimulation
\* ------------------------------------------------------------------------
\* the literal 0.5
Half == dblOver(dblOf(1), 2)

\* 1 + (Math.random() - 0.5) * 2 * risk
riskFactor(random, risk) ==
  dblAdd(dblOf(1), dblMul(dblMul(dblSub(random, Half), dblOf(2)), risk))

\* baseValue * technicalFactor * marketFactor * organizationalFactor
simulatedValue(baseValue, technicalFactor, marketFactor, organizationalFactor) ==
  dblMul(dblMul(dblMul(baseValue, technicalFactor), marketFactor),
         organizationalFactor)

\* results.sort((a, b) => a - b)
RECURSIVE insertAscending(_, _)
insertAscending(sorted, value) ==
  IF sorted = <<>> THEN <<value>>
  ELSE IF dblLess(value, sorted[1]) THEN <<value>> \o sorted
  ELSE <<sorted[1]>> \o insertAscending(Tail(sorted), value)

RECURSIVE sortAscending(_)
sortAscending(results) ==
  IF results = <<>> THEN <<>>
  ELSE insertAscending(sortAscending(SubSeq(results, 1, Len(results) - 1)),
                       results[Len(results)])

\* results.reduce((sum, val) => sum + val, 0) over the first k results
RECURSIVE sumOfResults(_, _)
sumOfResults(results, k) ==
  IF k = 0 THEN Zero ELSE dblAdd(sumOfResults(results, k - 1), results[k])

meanOf(results) == dblOver(sumOfResults(results, Len(results)), Len(results))

\* Math.pow(val - mean, 2)
squaredDeviation(val, mean) == dblMul(dblSub(val, mean), dblSub(val, mean))

\* results.reduce((sum, val) => sum + Math.pow(val - mean, 2), 0) over the
\* first k results
RECURSIVE sumOfSquares(_, _, _)
sumOfSquares(results, mean, k) ==
  IF k = 0 THEN Zero
  ELSE dblAdd(sumOfSquares(results, mean, k - 1),
              squaredDeviation(results[k], mean))

varianceOf(results, mean) ==
  dblOver(sumOfSquares(results, mean, Len(results)), Len(results))

\* Math.floor(iterations * 0.1), ... * 0.5, ... * 0.9
percentileIndex(iterations, tenths) ==
  dblFloor(dblMul(dblOf(iterations), dblOver(dblOf(tenths), 10)))

\* what is returned for the sorted results and their mean
monteCarloResult(results, mean, iterations) ==
  [mean |-> mean,
   standardDeviation |-> dblSqrt(varianceOf(results, mean)),
   percentiles |-> [p10 |-> results[percentileIndex(iterations, 1) + 1],
                    p50 |-> results[percentileIndex(iterations, 5) + 1],
                    p90 |-> results[percentileIndex(iterations, 9) + 1]]]

monteCarloOf(sorted, iterations) ==
  monteCarloResult(sorted, meanOf(sorted), iterations)

\* ------------------------------------------------------------------------
\* The cost estimation request, method 'delphi': the values of the JSON
\* body, the validation of the estimates and the answer
\* ------------------------------------------------------------------------
Number(value) == [type |-> "number", value |-> value]

Text == [type |-> "string"]

Undefined == [type |-> "undefined"]

Null == [type |-> "null"]

List(items) == [type |-> "array", items |-> items]

PostedEstimate(expertId, optimistic, mostLikely, pessimistic, confidence) ==
  [expertId |-> expertId, optimistic |-> optimistic,
   mostLikely |-> mostLikely, pessimistic |-> pessimistic,
   confidence |-> confidence]

\* the condition of the if in the loop over the estimates, for an estimate
\* that is an object; confidence is counted in tenths
invalidEstimate(estimate) ==
  \/ estimate.optimistic.type # "number"
  \/ estimate.mostLikely.type # "number"
  \/ estimate.pessimistic.type # "number"
  \/ estimate.confidence.type # "number"
  \/ estimate.optimistic.value < 0
  \/ estimate.mostLikely.value < 0
  \/ estimate.pessimistic.value < 0
  \/ estimate.confidence.value < 0
  \/ estimate.confidence.value > 10
  \/ estimate.optimistic.value > estimate.mostLikely.value
  \/ estimate.mostLikely.value > estimate.pessimistic.value

BadRequest(error, expert) == [status |-> 400, error |-> error, expert |-> expert]

ServerError ==
  [status |-> 500, error |-> "Internal server error during cost estimation",
   expert |-> ""]

Passed == [status |-> 200, error |-> "", expert |-> ""]

\* for (const estimate of delphiData.estimates) from the k-th estimate on:
\* reading a field of null raises, and the catch answers 500
RECURSIVE validateFrom(_, _)
validateFrom(estimates, k) ==
  IF k > Len(estimates) THEN Passed
  ELSE IF estimates[k] = Null THEN ServerError
  ELSE IF invalidEstimate(estimates[k])
  THEN BadRequest("Invalid estimate data for expert", estimates[k].expertId)
  ELSE validateFrom(estimates, k + 1)

\* the validation of the body: reading estimates of an absent data raises
validateDelphi(body) ==
  IF body.data = Undefined THEN ServerError
  ELSE IF body.data.estimates = Undefined
          \/ Len(body.data.estimates.items) = 0
  THEN BadRequest("At least one expert estimate is required", "")
  ELSE validateFrom(body.data.estimates.items, 1)

\* the estimates the engine is given
estimatesOf(posted) ==
  [k \in DOMAIN posted |->
     ExpertEstimate(posted[k].expertId, posted[k].optimistic.value,
                    posted[k].mostLikely.value, posted[k].pessimistic.value,
                    posted[k].confidence.value)]

least(values) == CHOOSE v \in Range(values) : \A w \in Range(values) : v <= w

greatest(values) == CHOOSE v \in Range(values) : \A w \in Range(values) : v >= w

\* Math.min(...) of the optimistic and Math.max(...) of the pessimistic values
estimateRangeOf(low, high) ==
  [min |-> low, max |-> high, spread |-> high - low]

estimateRange(estimates) ==
  estimateRangeOf(least([k \in DOMAIN estimates |-> estimates[k].optimistic]),
                  greatest([k \in DOMAIN estimates |-> estimates[k].pessimistic]))

expertAnalysisOf(estimate) ==
  [expertId |-> estimate.expertId,
   pertEstimate |-> pertEstimate(estimate),
   confidence |-> estimate.confidence,
   range |-> estimate.pessimistic - estimate.optimistic,
   optimisticBias |->
     divide(FracInt(estimate.mostLikely - estimate.optimistic),
            FracInt(estimate.pessimistic - estimate.optimistic)),
   pessimisticBias |->
     divide(FracInt(estimate.pessimistic - estimate.mostLikely),
            FracInt(estimate.pessimistic - estimate.optimistic))]

\* the answer for validated estimates without riskFactors
delphiAnswer(estimates, estimation) ==
  [status |-> 200,
   method |-> "delphi",
   result |-> [finalEstimate |-> estimation.finalEstimate,
               consensus |-> estimation.consensus,
               pertAverage |-> estimation.pert,
               confidenceWeightedAverage |->
                 estimation.confidenceWeightedAverage,
               expertCount |-> Len(estimates),
               estimateRange |-> estimateRange(estimates),
               expertAnalysis |->
                 [k \in DOMAIN estimates |-> expertAnalysisOf(estimates[k])],
               riskAnalysis |-> Null]]

\* ------------------------------------------------------------------------
\* The cost estimation request, method 'regression', as the form posts it:
\* every field a number; sizes and costs are counted in thousands
\* ------------------------------------------------------------------------
HistoricalProject(linesOfCode, teamSize, complexity, actualCost, actualDuration) ==
  [linesOfCode |-> linesOfCode, teamSize |-> teamSize,
   complexity |-> complexity, actualCost |-> actualCost,
   actualDuration |-> actualDuration]

NewProject(linesOfCode, teamSize, complexity) ==
  [linesOfCode |-> linesOfCode, teamSize |-> teamSize, complexity |-> complexity]

\* the condition of the if in the loop over the historical projects
invalidProject(project) ==
  \/ project.linesOfCode <= 0
  \/ project.teamSize <= 0
  \/ project.complexity < 1
  \/ project.complexity > 5
  \/ project.actualCost <= 0
  \/ project.actualDuration <= 0

invalidNewProject(newProject) ==
  \/ newProject.linesOfCode <= 0
  \/ newProject.teamSize <= 0
  \/ newProject.complexity < 1
  \/ newProject.complexity > 5

\* the validation of the regression data: the answer 400, or Passed
validateRegression(body) ==
  IF Len(body.data.historicalData.items) < 2
  THEN BadRequest("At least 2 historical projects are required for regression analysis", "")
  ELSE IF \E k \in DOMAIN body.data.historicalData.items :
            invalidProject(body.data.historicalData.items[k])
  THEN BadRequest("Invalid historical project data", "")
  ELSE IF invalidNewProject(body.data.newProject)
  THEN BadRequest("Invalid new project parameters", "")
  ELSE Passed

\* the answer of a regression: of its result, the count of the projects
regressionAnswer(body) ==
  [status |-> 200, method |-> "regression",
   projectCount |-> Len(body.data.historicalData.items)]

\* ------------------------------------------------------------------------
\* Inputs of the requests
\* ------------------------------------------------------------------------
R2 == Resource("R2", 1, 5, <<1>>)

\* availability lists: always available, every second period off, never
\* available
Availabilities == {<<1>>, <<1, 0>>, <<0>>}

\* the resource lists of the scheduling requests: R1 varies, R2 is fixed
ResourceLists ==
  {<<Resource("R1", cap, 3, avail), R2>> :
     cap \in 0..MaxCapacity, avail \in Availabilities}

FirstRequirements ==
  {<<Req("R1", 1)>>, <<Req("R1", 2)>>}

Requirements ==
  {<<>>, <<Req("R1", 1)>>, <<Req("R1", 1), Req("R2", 1)>>,
   <<Req(UnknownResource, 1)>>}

\* two tasks, B after A or independent of it, in both input orders
PairTaskLists ==
  LET pairs == {<<Task("A", dA, reqA, <<>>), Task("B", dB, reqB, preB)>> :
                  dA \in 0..MaxDuration, dB \in 0..MaxDuration,
                  reqA \in FirstRequirements, reqB \in Requirements,
                  preB \in {<<>>, <<"A">>}}
  IN pairs \cup {<<p[2], p[1]>> : p \in pairs}

\* prerequisite lists of the three-task graphs: chains, cycles, self loops
\* and ids that name no task
PrerequisiteLists ==
  {<<>>, <<"A">>, <<"B">>, <<"C">>, <<UnknownTask>>, <<"B", "C">>}

Permutations3 ==
  {p \in [1..3 -> TaskIds] : \A i, j \in 1..3 : p[i] = p[j] => i = j}

GraphTask(id, prereqs) ==
  Task(id, IF id = "A" THEN 2 ELSE 1, <<Req("R1", 1)>>, prereqs)

GraphTaskLists ==
  {[i \in 1..3 |-> GraphTask(perm[i], pre[perm[i]])] :
     perm \in Permutations3, pre \in [TaskIds -> PrerequisiteLists]}

GraphResources == <<Resource("R1", 2, 3, <<1>>), R2>>

\* a task with the priority the request gives it
Prioritized(task, priority) == [task EXCEPT !.priority = priority]

\* three tasks without prerequisites that compete for the one unit of R1,
\* in the input order A, B, C, with every choice of priorities
PriorityTaskLists ==
  {<<Prioritized(Task("A", 1, <<Req("R1", 1)>>, <<>>), pr[1]),
     Prioritized(Task("B", 1, <<Req("R1", 1)>>, <<>>), pr[2]),
     Prioritized(Task("C", 1, <<Req("R1", 1)>>, <<>>), pr[3])>> :
     pr \in [1..3 -> 1..MaxPriority]}

PriorityResources == <<Resource("R1", 1, 3, <<1>>), R2>>

\* C depends on A, which is placed, and on B, which asks for more of R1 than
\* there is, or on an id that names no task
DependentTaskLists ==
  {<<Task("A", 2, <<Req("R1", 1)>>, <<>>),
     Task("B", 1, <<Req("R1", 2)>>, <<>>),
     Task("C", 1, <<Req("R1", 1)>>, preC)>> :
     preC \in {<<"A", "B">>, <<"B", "A">>, <<"B">>, <<UnknownTask, "A">>}}

\* projectDeadline: 0 stands for an absent deadline
Deadlines == {0, MaxDeadline}

\* the example of the scheduler: B after A, both 1 of R1 for 2 periods, one
\* resource of capacity 1 that is always available
ExampleTaskLists ==
  LET A == Task("A", 2, <<Req("R1", 1)>>, <<>>)
      B == Task("B", 2, <<Req("R1", 1)>>, <<"A">>)
  IN {<<A, B>>, <<B, A>>}

ExampleResources ==
  {<<Resource("R1", 1, rate, avail)>> : rate \in {1, 3}, avail \in {<<1>>, <<1, 1>>}}

ExampleDeadlines == Deadlines \cup {MaxDeadline + 1}

Scenarios == {Scenario(m, tc) : m \in 0..2, tc \in Deadlines}

ScenarioLists ==
  {<<s>> : s \in Scenarios} \cup {<<s, t>> : s \in Scenarios, t \in Scenarios}

ScenarioTaskLists ==
  LET pairs == {<<Task("A", d, <<Req("R1", 1)>>, <<>>),
                  Task("B", d, <<Req("R1", 2)>>, preB)>> :
                  d \in 1..MaxDuration, preB \in {<<>>, <<"A">>}}
  IN pairs \cup {<<p[2], p[1]>> : p \in pairs}

ScenarioResources ==
  {<<Resource("R1", cap, 3, avail), R2>> :
     cap \in 0..MaxCapacity, avail \in {<<1>>, <<1, 0>>}}

\* ------------------------------------------------------------------------
\* Arguments of the calls of the calculations
\* ------------------------------------------------------------------------
\* confidences 0, 0.5 and 1
Confidences == {0, 5, 10}

\* no expert, one expert, two experts who agree or differ
EstimateLists ==
  {<<>>}
  \cup {<<ExpertEstimate("E1", 80, 100, 140, c)>> : c \in Confidences}
  \cup {<<ExpertEstimate("E1", 80, 100, 140, c),
          ExpertEstimate("E2", o, 100, 140, d)>> :
          c \in Confidences, d \in Confidences, o \in {20, 80}}
  \cup {<<ExpertEstimate("E1", 0, 0, 0, c)>> : c \in Confidences}

\* cash flows of a period: a loss, nothing, a gain
CashFlowValues == {-50, 0, 100}

CashFlowLists ==
  UNION {[1..n -> CashFlowValues] : n \in 0..MaxFlows}

Investments == {0, 100, 250}

\* cash flows and investment of the calls of calculateIRR: streams whose
\* rate is found at once, after one and after two iterations, streams of a
\* derivative of 0, and streams that take more iterations than are allowed
IrrStreams ==
  {<<<<110>>, 100>>, <<<<0, 121>>, 100>>, <<<<111>>, 100>>, <<<<12>>, 10>>,
   <<<<1>>, 1>>, <<<<0>>, 100>>, <<<<>>, 100>>, <<<<22>>, 10>>, <<<<11>>, 0>>}

\* base values of the simulations: 0.1 and 100
BaseValues == {dblOver(dblOf(1), 10), dblOf(100)}

\* risk factors: none at all, or one of 0.5
RiskFactors(technical, market, organizational) ==
  [technical |-> technical, market |-> market,
   organizational |-> organizational]

RiskFactorSets ==
  {RiskFactors(Zero, Zero, Zero), RiskFactors(Half, Zero, Zero),
   RiskFactors(Zero, Half, Zero), RiskFactors(Zero, Zero, Half)}

\* what Math.random() returns: 0, 0.25, 0.75
Draws == {dblOver(dblOf(n), 4) : n \in {0, 1, 3}}

\* the estimates of the bodies: sound ones, one with a field that is a
\* string, absent or negative, ones out of order or with a confidence above
\* 1, and null
SoundEstimate ==
  PostedEstimate("E1", Number(80), Number(100), Number(140), Number(5))

PostedEstimates ==
  {SoundEstimate,
   PostedEstimate("E1", Number(100), Number(100), Number(100), Number(10)),
   PostedEstimate("E1", Number(0), Number(0), Number(0), Number(0))}
  \cup {[SoundEstimate EXCEPT ![field] = value] :
          field \in {"optimistic", "mostLikely", "pessimistic", "confidence"},
          value \in {Text, Undefined, Number(-10)}}
  \cup {[SoundEstimate EXCEPT !.optimistic = Number(120)],
        [SoundEstimate EXCEPT !.mostLikely = Number(150)],
        [SoundEstimate EXCEPT !.confidence = Number(15)],
        Null}

Second(estimate) ==
  IF estimate = Null THEN Null ELSE [estimate EXCEPT !.expertId = "E2"]

\* the bodies { method: 'delphi', data }: no data, no estimates, and lists
\* of no, one and two estimates
DelphiBodies ==
  {[data |-> Undefined], [data |-> [estimates |-> Undefined]],
   [data |-> [estimates |-> List(<<>>)]]}
  \cup {[data |-> [estimates |-> List(<<e>>)]] : e \in PostedEstimates}
  \cup {[data |-> [estimates |-> List(<<e, Second(f)>>)]] :
          e \in PostedEstimates, f \in PostedEstimates}

\* the experts of the form: the one it starts with (all 0, confidence 0.8),
\* one filled in soundly and one whose optimistic value is above the most
\* likely; the form never posts an empty list
FormExperts ==
  {PostedEstimate("E1", Number(0), Number(0), Number(0), Number(8)),
   SoundEstimate,
   [SoundEstimate EXCEPT !.optimistic = Number(120)]}

FormDelphiBodies ==
  {[data |-> [estimates |-> List(<<e>>)]] : e \in FormExperts}
  \cup {[data |-> [estimates |-> List(<<e, Second(f)>>)]] :
          e \in FormExperts, f \in FormExperts}

\* the historical projects of the form: the one it starts with and one
\* whose cost was set to 0; the new project it starts with and one without
\* a team
FormProjects ==
  {HistoricalProject(10, 5, 3, 150, 6), HistoricalProject(10, 5, 3, 0, 6)}

FormNewProjects == {NewProject(15, 6, 3), NewProject(15, 0, 3)}

FormRegressionBodies ==
  {[data |-> [historicalData |-> List(projects), newProject |-> newProject]] :
     projects \in {<<p>> : p \in FormProjects}
                \cup {<<p, q>> : p \in FormProjects, q \in FormProjects}
                \cup {<<p, q, q>> : p \in FormProjects, q \in FormProjects},
     newProject \in FormNewProjects}

\* ------------------------------------------------------------------------
\* Decision trees of the requests
\* ------------------------------------------------------------------------
Outcome(name, probability, cost, value) ==
  Node(name, "outcome", probability, cost, value, <<>>)

\* success probabilities of the chance nodes, in tenths
SuccessChances == {5, 7, 8, 9}

\* a decision between two chance nodes, each with a success and a failure
\* outcome (the build-or-buy tree), the options in either order
OptionTrees ==
  {<<Node("Development", "decision", 0, 0, 0, options),
     Node("In-House", "chance", 0, 0, 0, <<4, 5>>),
     Node("Outsource", "chance", 0, 0, 0, <<6, 7>>),
     Outcome("Success", sA, 200000, 500000),
     Outcome("Failure", 10 - sA, 200000, 100000),
     Outcome("Success", sB, 150000, vB),
     Outcome("Failure", 10 - sB, 150000, 50000)>> :
     options \in {<<2, 3>>, <<3, 2>>}, sA \in SuccessChances,
     sB \in SuccessChances, vB \in {400000, 500000}}

\* decision, chance, decision, chance, outcome: four levels above the leaves
DeepTrees ==
  {<<Node("Launch", "decision", 0, 0, 0, <<2, 3>>),
     Node("Pilot", "chance", 0, 5000, 0, <<4, 5>>),
     Outcome("Skip", 0, 0, skip),
     Node("Expand", "decision", p, 7000, 0, <<6, 7>>),
     Outcome("Failure", 10 - p, 20, 5),
     Node("Scale", "chance", 0, 0, 0, <<8, 9>>),
     Outcome("Sell", 0, 10, sell),
     Outcome("Partial success", q, 15, 90),
     Outcome("Failure", 10 - q, 15, 0)>> :
     skip \in {0, 25}, p \in {3, 6}, q \in {5, 7}, sell \in {40, 65}}

\* nodes with no child, one child or three children, chances that do not
\* add up to 1, an outcome that has children
OddTrees ==
  {<<Outcome("Done", 0, 30, 100)>>,
   <<Node("Empty", "decision", 0, 50, 70, <<>>)>>,
   <<Node("Empty", "chance", 0, 50, 70, <<>>)>>,
   <<Node("Leaf", "outcome", 0, 10, 40, <<2>>), Outcome("Below", 10, 0, 500)>>,
   <<Node("Only", "decision", 0, 0, 0, <<2>>), Outcome("Success", 10, 10, 40)>>,
   <<Node("Pick", "decision", 0, 0, 0, <<2, 3, 4>>),
     Outcome("Low", 0, 60, 40), Outcome("High", 0, 10, 40),
     Outcome("Even", 0, 40, 40)>>,
   <<Node("Market", "chance", 0, 0, 0, <<2, 3>>),
     Node("Boom", "decision", 7, 0, 0, <<4>>),
     Outcome("Bust", 3, 10, 0),
     Outcome("Success", 0, 10, 40)>>,
   <<Node("Market", "chance", 0, 0, 0, <<2, 3>>),
     Node("Boom", "decision", 3, 0, 0, <<4>>),
     Outcome("Bust", 7, 10, 0),
     Outcome("Success", 0, 10, 45)>>,
   <<Node("Market", "chance", 0, 0, 0, <<2, 3, 4>>),
     Outcome("Up", 5, 0, 25), Outcome("Flat", 5, 0, 10),
     Outcome("Down", 3, 30, 0)>>}

\* a decision between two chance nodes whose expected values are negative
\* or of opposite signs
LossTrees ==
  {<<Node("Recovery", "decision", 0, 0, 0, options),
     Node("Repair", "chance", 0, 0, 0, <<4, 5>>),
     Node("Replace", "chance", 0, 0, 0, <<6, 7>>),
     Outcome("Success", 5, 100, vA),
     Outcome("Failure", 5, 100, 40),
     Outcome("Success", 9, 100, 90),
     Outcome("Failure", 1, 100, 0)>> :
     options \in {<<2, 3>>, <<3, 2>>}, vA \in {100, 150, 180}}

\* a decision between options of which one or both have no success and
\* failure outcomes below them, their values equal, close or apart
PlainTrees ==
  {<<Node("Pick", "decision", 0, 0, 0, <<2, 3>>),
     Outcome("First", 0, 10, 40),
     Outcome("Second", 0, c, 40)>> : c \in {10, 11, 30}}
  \cup
  {<<Node("Pick", "decision", 0, 0, 0, <<2, 3>>),
     Node("Try", "chance", 0, 0, 0, <<4, 5>>),
     Outcome("Keep", 0, 0, keep),
     Outcome("Success", 5, 0, 60),
     Outcome("Failure", 5, 0, 0)>> : keep \in {30, 31, 50}}

\* a chance node whose most probable child is not its most valuable one, with
\* and without another child of the same probability
LikelyTrees ==
  {<<Node("Market", "chance", 0, 0, 0, <<2, 3, 4>>),
     Outcome("Flat", 5, 0, 10),
     Outcome("Up", up, 0, 25),
     Outcome("Down", down, 0, 0)>> : up \in {4, 5}, down \in {1, 5}}
  \cup
  {<<Node("Market", "chance", 0, 0, 0, <<2, 3>>),
     Outcome("Quiet", 0, 0, 10),
     Outcome("Busy", 0, 0, 25)>>}

\* a decision between two options of the same outcomes, so that their
\* expected values and their risk scores are equal
TwinTrees ==
  {<<Node("Vendor", "decision", 0, 0, 0, options),
     Node("North", "chance", 0, 0, 0, <<4, 5>>),
     Node("South", "chance", 0, 0, 0, <<4, 5>>),
     Outcome("Success", 8, 20, 90),
     Outcome("Failure", 2, 20, 10)>> : options \in {<<2, 3>>, <<3, 2>>}}

DecisionTrees ==
  OptionTrees \cup DeepTrees \cup OddTrees \cup LossTrees \cup PlainTrees
    \cup LikelyTrees \cup TwinTrees

\* the request names no tree
NoTree == <<>>

\* ------------------------------------------------------------------------
\* State
\* ------------------------------------------------------------------------
VARIABLES
  method,              \* the request: "optimize", "scenario", "decisionTree"
  tasks,               \* data.tasks / data.baseTasks
  resources,           \* data.resources / data.baseResources
  projectDeadline,     \* data.projectDeadline, 0 when absent
  scenarios,           \* data.scenarios
  pc,                  \* position of the request
  visited,             \* topologicalSort: visited
  visiting,            \* topologicalSort: visiting
  result,              \* topologicalSort: result
  stack,               \* topologicalSort: the active calls of visit
  next,                \* topologicalSort: index of tasks.forEach
  sortedTasks,         \* optimizeResourceAllocation: sortedTasks
  cursor,              \* index of the loop over sortedTasks
  schedule,            \* optimizeResourceAllocation: schedule
  resourceUtilization, \* optimizeResourceAllocation: resourceUtilization
  conflicts,           \* optimizeResourceAllocation: conflicts
  totalCost,
  projectDuration,
  levelingResources,   \* data.resourcesForLeveling of the leveling request
  levelingResult,      \* the answer of the leveling request
  scenarioResults,     \* performScenarioAnalysis: the mapped list so far
  decisionTree,        \* the tree of the decision tree request
  analysis,            \* the DecisionAnalysisResult of the request
  arguments,           \* the arguments of a call of a calculation
  answer,              \* what the call has computed so far, then returned
  loading,             \* CostEstimationForm: loading
  error,               \* CostEstimationForm: error, "" for null
  results,             \* CostEstimationForm: results, <<>> for null
  pending              \* CostEstimationForm: the run that awaits its answer

inputVars == <<method, tasks, resources, projectDeadline, scenarios>>

sortVars == <<visited, visiting, result, stack, next>>

runVars == <<sortedTasks, cursor, schedule, resourceUtilization, conflicts,
             totalCost, projectDuration>>

vars == <<method, tasks, resources, projectDeadline, scenarios, pc,
          visited, visiting, result, stack, next,
          sortedTasks, cursor, schedule, resourceUtilization, conflicts,
          totalCost, projectDuration, levelingResources, levelingResult,
          scenarioResults, decisionTree, analysis, arguments, answer,
          loading, error, results, pending>>

treeVars == <<decisionTree, analysis>>

formVars == <<loading, error, results, pending>>

callVars == <<arguments, answer, formVars>>

\* the state of the calculations of the projects route
calculationVars == <<tasks, resources, projectDeadline, scenarios, sortVars,
                    runVars, levelingResources, levelingResult,
                    scenarioResults, treeVars>>

\* what a call of a calculation leaves alone
serverVars == <<calculationVars, formVars>>

NoResult == [schedule |-> <<>>, resourceUtilization |-> NoAssigned,
             totalCost |-> 0, projectDuration |-> 0, conflicts |-> <<>>]

maxPeriods == maxPeriodsOf(projectDeadline)

\* the server waits for a request: nothing received, nothing computed
Init ==
  /\ pc = "idle"
  /\ method = "none"
  /\ tasks = <<>>
  /\ resources = <<>>
  /\ projectDeadline = 0
  /\ scenarios = <<>>
  /\ visited = {}
  /\ visiting = {}
  /\ result = <<>>
  /\ stack = <<>>
  /\ next = 1
  /\ sortedTasks = <<>>
  /\ cursor = 1
  /\ schedule = <<>>
  /\ resourceUtilization = NoAssigned
  /\ conflicts = <<>>
  /\ totalCost = 0
  /\ projectDuration = 0
  /\ levelingResources = <<>>
  /\ levelingResult = NoResult
  /\ scenarioResults = <<>>
  /\ decisionTree = NoTree
  /\ analysis = NoAnalysis
  /\ arguments = <<>>
  /\ answer = <<>>
  /\ loading = FALSE
  /\ error = ""
  /\ results = <<>>
  /\ pending = "none"

\* ------------------------------------------------------------------------
\* POST: the request is read and dispatched on its method
\* ------------------------------------------------------------------------
\* case 'optimize': optimizeResourceAllocation(tasks, resources, projectDeadline)
OptimizeRequest ==
  /\ pc = "idle"
  /\ \/ /\ tasks' \in PairTaskLists
        /\ resources' \in ResourceLists
        /\ projectDeadline' \in Deadlines
     \/ /\ tasks' \in GraphTaskLists
        /\ resources' = GraphResources
        /\ projectDeadline' = 0
     \/ /\ tasks' \in ExampleTaskLists
        /\ resources' \in ExampleResources
        /\ projectDeadline' \in ExampleDeadlines
     \/ /\ tasks' \in PriorityTaskLists
        /\ resources' = PriorityResources
        /\ projectDeadline' \in Deadlines
     \/ /\ tasks' \in DependentTaskLists
        /\ resources' = PriorityResources
        /\ projectDeadline' \in Deadlines
  /\ method' = "optimize"
  /\ pc' = "topologicalSort"
  /\ UNCHANGED <<scenarios, sortVars, runVars, levelingResources,
                 levelingResult, scenarioResults>>
  /\ UNCHANGED <<treeVars, callVars>>

\* case 'scenario': performScenarioAnalysis(baseTasks, baseResources, scenarios)
ScenarioRequest ==
  /\ pc = "idle"
  /\ tasks' \in ScenarioTaskLists
  /\ resources' \in ScenarioResources
  /\ scenarios' \in ScenarioLists
  /\ method' = "scenario"
  /\ pc' = "scenario"
  /\ UNCHANGED <<projectDeadline, sortVars, runVars, levelingResources,
                 levelingResult, scenarioResults>>
  /\ UNCHANGED <<treeVars, callVars>>

\* ------------------------------------------------------------------------
\* topologicalSort, one call of visit at a time
\* ------------------------------------------------------------------------
\* a visit without the test visiting.has(taskId)
EnterVisit_NoCycleTest(taskId, below) ==
  IF taskId \in visited
  THEN /\ stack' = below
       /\ visiting' = visiting
  ELSE /\ Len(below) < MaxStack
       /\ stack' = Append(below, [taskId |-> taskId, j |-> 1])
       /\ visiting' = visiting \cup {taskId}

\* a visit that does not return at once for an id that was visited
EnterVisit_NoVisitedTest(taskId, below) ==
  IF taskId \in visiting
  THEN /\ stack' = below
       /\ visiting' = visiting
  ELSE /\ Len(below) < MaxStack
       /\ stack' = Append(below, [taskId |-> taskId, j |-> 1])
       /\ visiting' = visiting \cup {taskId}

\* visit(taskId) up to its first recursive call: returns at once when the id
\* is being visited or was visited, else marks it and becomes an active call
\* on top of the calls in below
EnterVisit(taskId, below) ==
  IF taskId \in visiting \/ taskId \in visited
  THEN /\ stack' = below
       /\ visiting' = visiting
  ELSE /\ Len(below) < MaxStack
       /\ stack' = Append(below, [taskId |-> taskId, j |-> 1])
       /\ visiting' = visiting \cup {taskId}

\* tasks.forEach(task => visit(task.id)): the next top-level call
VisitTask ==
  /\ pc = "topologicalSort"
  /\ stack = <<>>
  /\ next <= Len(tasks)
  /\ EnterVisit(tasks[next].id, stack)
  /\ next' = next + 1
  /\ UNCHANGED <<visited, result>>
  /\ UNCHANGED <<inputVars, pc, runVars, levelingResources, levelingResult,
                 scenarioResults>>
  /\ UNCHANGED <<treeVars, callVars>>

\* task.prerequisites.forEach(prereq => visit(prereq)): the active call
\* visits its next prerequisite
VisitPrerequisite ==
  /\ pc = "topologicalSort"
  /\ stack # <<>>
  /\ LET top == stack[Len(stack)]
         i == findTask(tasks, top.taskId)
     IN /\ i # 0
        /\ top.j <= Len(tasks[i].prerequisites)
        /\ EnterVisit(tasks[i].prerequisites[top.j],
                      [stack EXCEPT ![Len(stack)].j = top.j + 1])
  /\ UNCHANGED <<visited, result, next>>
  /\ UNCHANGED <<inputVars, pc, runVars, levelingResources, levelingResult,
                 scenarioResults>>
  /\ UNCHANGED <<treeVars, callVars>>

\* the active call ends: result.push(task) and visited.add(taskId) when the
\* id names a task, visiting.delete(taskId) always
VisitReturn ==
  /\ pc = "topologicalSort"
  /\ stack # <<>>
  /\ LET top == stack[Len(stack)]
         i == findTask(tasks, top.taskId)
     IN /\ i # 0 => top.j > Len(tasks[i].prerequisites)
        /\ result' = IF i # 0 THEN Append(result, tasks[i]) ELSE result
        /\ visited' = IF i # 0 THEN visited \cup {top.taskId} ELSE visited
        /\ visiting' = visiting \ {top.taskId}
        /\ stack' = SubSeq(stack, 1, Len(stack) - 1)
  /\ UNCHANGED next
  /\ UNCHANGED <<inputVars, pc, runVars, levelingResources, levelingResult,
                 scenarioResults>>
  /\ UNCHANGED <<treeVars, callVars>>

\* ------------------------------------------------------------------------
\* optimizeResourceAllocation, one task at a time
\* ------------------------------------------------------------------------
\* topologicalSort returns; the utilization arrays are created
StartScheduling ==
  /\ pc = "topologicalSort"
  /\ stack = <<>>
  /\ next > Len(tasks)
  /\ sortedTasks' = result
  /\ schedule' = <<>>
  /\ conflicts' = <<>>
  /\ resourceUtilization' = initialUtilization(resources, maxPeriods)
  /\ cursor' = 1
  /\ pc' = "schedule"
  /\ UNCHANGED <<inputVars, sortVars, totalCost, projectDuration,
                 levelingResources, levelingResult, scenarioResults>>
  /\ UNCHANGED <<treeVars, callVars>>

\* one iteration of for (const task of sortedTasks)
PlaceTask ==
  /\ pc = "schedule"
  /\ cursor <= Len(sortedTasks)
  /\ \E st \in {placeTask([schedule |-> schedule,
                            resourceUtilization |-> resourceUtilization,
                            conflicts |-> conflicts],
                           sortedTasks[cursor], resources, maxPeriods)} :
       /\ schedule' = st.schedule
       /\ resourceUtilization' = st.resourceUtilization
       /\ conflicts' = st.conflicts
  /\ cursor' = cursor + 1
  /\ UNCHANGED <<inputVars, pc, sortVars, sortedTasks, totalCost,
                 projectDuration, levelingResources, levelingResult,
                 scenarioResults>>
  /\ UNCHANGED <<treeVars, callVars>>

\* "Calculate total cost and project duration", and the return
ComputeMetrics ==
  /\ pc = "schedule"
  /\ cursor > Len(sortedTasks)
  /\ totalCost' = computeTotalCost(schedule, resources, 1)
  /\ projectDuration' = computeProjectDuration(schedule, 1, 0)
  /\ pc' = "done"
  /\ UNCHANGED <<inputVars, sortVars, sortedTasks, cursor, schedule,
                 resourceUtilization, conflicts, levelingResources,
                 levelingResult, scenarioResults>>
  /\ UNCHANGED <<treeVars, callVars>>

\* the ScheduleResult the optimize request answers with
optimizationResult ==
  [schedule |-> schedule, resourceUtilization |-> resourceUtilization,
   totalCost |-> totalCost, projectDuration |-> projectDuration,
   conflicts |-> conflicts]

\* ------------------------------------------------------------------------
\* The leveling request, on the answer of the optimize request
\* ------------------------------------------------------------------------
\* Object.entries order of resourceUtilization: the order the arrays were
\* created in, that of the resource list
utilizationKeys(rs) == [i \in DOMAIN rs |-> rs[i].id]

\* the resource list with every capacity one lower
Tightened(rs) ==
  [i \in DOMAIN rs |-> [rs[i] EXCEPT !.maxCapacity = Max(0, @ - 1)]]

Leveling ==
  /\ pc = "done"
  /\ method = "optimize"
  /\ \E rl \in {resources, Tightened(resources)} :
       /\ levelingResources' = rl
       /\ levelingResult' = performResourceLeveling(optimizationResult,
                              utilizationKeys(resources), rl)
  /\ pc' = "leveled"
  /\ UNCHANGED <<inputVars, sortVars, runVars, scenarioResults>>
  /\ UNCHANGED <<treeVars, callVars>>

\* ------------------------------------------------------------------------
\* The scenario request: scenarios.map, one scenario at a time
\* ------------------------------------------------------------------------
ScenarioStep ==
  /\ pc = "scenario"
  /\ Len(scenarioResults) < Len(scenarios)
  /\ LET scenario == scenarios[Len(scenarioResults) + 1]
     IN /\ scenarioResults' =
             Append(scenarioResults, scenarioRun(tasks, resources, scenario))
        /\ resources' = adjustResources(resources, scenario).base
  /\ UNCHANGED <<method, tasks, projectDeadline, scenarios, pc, sortVars,
                 runVars, levelingResources, levelingResult>>
  /\ UNCHANGED <<treeVars, callVars>>

ScenarioReturn ==
  /\ pc = "scenario"
  /\ Len(scenarioResults) = Len(scenarios)
  /\ pc' = "done"
  /\ UNCHANGED <<inputVars, sortVars, runVars, levelingResources,
                 levelingResult, scenarioResults>>
  /\ UNCHANGED <<treeVars, callVars>>

\* ------------------------------------------------------------------------
\* The decision tree request (POST of the decision-tree route)
\* ------------------------------------------------------------------------
\* const { decisionTree } = await req.json()
DecisionTreeRequest ==
  /\ pc = "idle"
  /\ decisionTree' \in DecisionTrees \cup {NoTree}
  /\ method' = "decisionTree"
  /\ pc' = "analyze"
  /\ UNCHANGED <<tasks, resources, projectDeadline, scenarios, sortVars,
                 runVars, levelingResources, levelingResult, scenarioResults,
                 analysis, callVars>>

\* the rest of the handler: 400 without a tree, else analyzeDecisionTree and
\* its result, or 500 when it raised
Analyze ==
  /\ pc = "analyze"
  /\ IF decisionTree = NoTree
     THEN /\ pc' = "rejected"
          /\ analysis' = analysis
     ELSE LET call == analyzeDecisionTree(decisionTree)
          IN /\ pc' = IF call.raised THEN "failed" ELSE "done"
             /\ analysis' = call.result
  /\ UNCHANGED <<inputVars, sortVars, runVars, levelingResources,
                 levelingResult, scenarioResults, decisionTree, callVars>>

\* ------------------------------------------------------------------------
\* Calls of the calculations
\* ------------------------------------------------------------------------
DelphiRequest ==
  /\ pc = "idle"
  /\ method' = "delphi"
  /\ \E estimates \in EstimateLists : arguments' = [estimates |-> estimates]
  /\ pc' = "call"
  /\ UNCHANGED <<answer, serverVars>>

Delphi ==
  /\ pc = "call"
  /\ method = "delphi"
  /\ answer' = calculateDelphiEstimation(arguments.estimates)
  /\ pc' = "done"
  /\ UNCHANGED <<method, arguments, serverVars>>

PaybackRequest ==
  /\ pc = "idle"
  /\ method' = "paybackPeriod"
  /\ \E cashFlows \in CashFlowLists : \E initialInvestment \in Investments :
       arguments' = [cashFlows |-> cashFlows,
                     initialInvestment |-> initialInvestment]
  /\ pc' = "call"
  /\ UNCHANGED <<answer, serverVars>>

Payback ==
  /\ pc = "call"
  /\ method = "paybackPeriod"
  /\ answer' = calculatePaybackPeriod(arguments.cashFlows,
                                      arguments.initialInvestment)
  /\ pc' = "done"
  /\ UNCHANGED <<method, arguments, serverVars>>

\* calculateIRR: the call, with let rate = 0.1 and i = 0
IrrRequest ==
  /\ pc = "idle"
  /\ method' = "irr"
  /\ \E stream \in IrrStreams : \E maxIterations \in 0..MaxIterations :
       arguments' = [cashFlows |-> stream[1],
                     initialInvestment |-> stream[2],
                     maxIterations |-> maxIterations]
  /\ answer' = [rate |-> Frac(1, 10), i |-> 0]
  /\ pc' = "irr"
  /\ UNCHANGED serverVars

\* an iteration of the loop that does not break
IrrIterate ==
  /\ pc = "irr"
  /\ answer.i < arguments.maxIterations
  /\ LET allCashFlows == allCashFlowsOf(arguments.cashFlows,
                                        arguments.initialInvestment)
     IN /\ ~converged(allCashFlows, answer.rate)
        /\ ~flat(allCashFlows, answer.rate)
        /\ answer' = [rate |-> newtonStep(allCashFlows, answer.rate),
                      i |-> answer.i + 1]
  /\ UNCHANGED <<method, arguments, pc, serverVars>>

\* the loop ends, by its bound or by a break, and rate * 100 is returned
IrrReturn ==
  /\ pc = "irr"
  /\ LET allCashFlows == allCashFlowsOf(arguments.cashFlows,
                                        arguments.initialInvestment)
     IN \/ answer.i >= arguments.maxIterations
        \/ converged(allCashFlows, answer.rate)
        \/ flat(allCashFlows, answer.rate)
  /\ answer' = [rate |-> answer.rate, i |-> answer.i,
                irr |-> percent(answer.rate)]
  /\ pc' = "done"
  /\ UNCHANGED <<method, arguments, serverVars>>

\* monteCarloSimulation: the call, with results = []
MonteCarloRequest ==
  /\ pc = "idle"
  /\ method' = "monteCarlo"
  /\ \E baseValue \in BaseValues : \E riskFactors \in RiskFactorSets :
       \E iterations \in 1..MaxSamples :
         arguments' = [baseValue |-> baseValue, riskFactors |-> riskFactors,
                       iterations |-> iterations]
  /\ answer' = [results |-> <<>>]
  /\ pc' = "simulate"
  /\ UNCHANGED serverVars

\* an iteration of the loop: three draws, one simulated value pushed
Simulate ==
  /\ pc = "simulate"
  /\ Len(answer.results) < arguments.iterations
  /\ \E technical \in Draws : \E market \in Draws : \E organizational \in Draws :
       answer' =
         [results |->
            Append(answer.results,
                   simulatedValue(
                     arguments.baseValue,
                     riskFactor(technical, arguments.riskFactors.technical),
                     riskFactor(market, arguments.riskFactors.market),
                     riskFactor(organizational,
                                arguments.riskFactors.organizational)))]
  /\ UNCHANGED <<method, arguments, pc, serverVars>>

\* after the loop: the results are sorted and summarised
Summarize ==
  /\ pc = "simulate"
  /\ Len(answer.results) >= arguments.iterations
  /\ answer' = monteCarloOf(sortAscending(answer.results), arguments.iterations)
  /\ pc' = "done"
  /\ UNCHANGED <<method, arguments, serverVars>>

\* POST of the cost estimation route with method 'delphi': the body is read
PostDelphi ==
  /\ pc = "idle"
  /\ method' = "costEstimation"
  /\ arguments' \in DelphiBodies
  /\ pc' = "validate"
  /\ UNCHANGED <<answer, serverVars>>

\* the validation: the answer 400 or 500, or the way on to the engine
ValidateDelphi ==
  /\ pc = "validate"
  /\ \E outcome \in {validateDelphi(arguments)} :
       IF outcome = Passed
       THEN pc' = "estimate" /\ answer' = answer
       ELSE pc' = "done" /\ answer' = outcome
  /\ UNCHANGED <<method, arguments, serverVars>>

\* calculateDelphiEstimation is called and the answer is built
EstimateDelphi ==
  /\ pc = "estimate"
  /\ answer' =
       delphiAnswer(estimatesOf(arguments.data.estimates.items),
                    calculateDelphiEstimation(
                      estimatesOf(arguments.data.estimates.items)))
  /\ pc' = "done"
  /\ UNCHANGED <<method, arguments, serverVars>>

\* the validation of a regression request: the answer 400, or the way on
ValidateRegression ==
  /\ pc = "validateRegression"
  /\ \E outcome \in {validateRegression(arguments)} :
       IF outcome = Passed
       THEN pc' = "estimateRegression" /\ answer' = answer
       ELSE pc' = "done" /\ answer' = outcome
  /\ UNCHANGED <<method, arguments, serverVars>>

\* calculateRegressionEstimation is called and the answer is built
EstimateRegression ==
  /\ pc = "estimateRegression"
  /\ answer' = regressionAnswer(arguments)
  /\ pc' = "done"
  /\ UNCHANGED <<method, arguments, serverVars>>

\* ------------------------------------------------------------------------
\* CostEstimationForm: the two Run buttons, disabled while loading
\* ------------------------------------------------------------------------
\* runDelphiEstimation up to the first await: setLoading(true),
\* setError(null), setResults(null) and the fetch
RunDelphiEstimation ==
  /\ pc \in {"idle", "shown"}
  /\ ~loading
  /\ loading' = TRUE
  /\ error' = ""
  /\ results' = <<>>
  /\ pending' = "delphi"
  /\ method' = "costEstimation"
  /\ arguments' \in FormDelphiBodies
  /\ answer' = <<>>
  /\ pc' = "validate"
  /\ UNCHANGED calculationVars

\* runRegressionEstimation up to the first await
RunRegressionEstimation ==
  /\ pc \in {"idle", "shown"}
  /\ ~loading
  /\ loading' = TRUE
  /\ error' = ""
  /\ results' = <<>>
  /\ pending' = "regression"
  /\ method' = "costEstimation"
  /\ arguments' \in FormRegressionBodies
  /\ answer' = <<>>
  /\ pc' = "validateRegression"
  /\ UNCHANGED calculationVars

\* the run after response.json(): on a status that is not ok setError and
\* return, else setResults and, after the try, setLoading(false)
responseRead ==
  IF answer.status # 200
  THEN /\ error' = answer.error
       /\ results' = results
       /\ loading' = loading
  ELSE /\ results' = answer
       /\ error' = error
       /\ loading' = FALSE

\* the answer of the server reaches the run that awaits it
ReadResponse ==
  /\ pc = "done"
  /\ pending # "none"
  /\ responseRead
  /\ pending' = "none"
  /\ pc' = "shown"
  /\ UNCHANGED <<method, arguments, answer, calculationVars>>

\* fetch or response.json() rejects: the catch, then setLoading(false)
FetchFails ==
  /\ pending # "none"
  /\ pc \in {"validate", "estimate", "validateRegression",
             "estimateRegression", "done"}
  /\ error' = "Network error occurred during estimation"
  /\ results' = results
  /\ loading' = FALSE
  /\ pending' = "none"
  /\ pc' = "shown"
  /\ UNCHANGED <<method, arguments, answer, calculationVars>>

\* the steps of optimizeResourceAllocation
Optimize ==
  \/ VisitTask
  \/ VisitPrerequisite
  \/ VisitReturn
  \/ StartScheduling
  \/ PlaceTask
  \/ ComputeMetrics

Next ==
  \/ OptimizeRequest
  \/ ScenarioRequest
  \/ Optimize
  \/ Leveling
  \/ ScenarioStep
  \/ ScenarioReturn
  \/ DecisionTreeRequest
  \/ Analyze
  \/ DelphiRequest
  \/ Delphi
  \/ PaybackRequest
  \/ Payback
  \/ IrrRequest
  \/ IrrIterate
  \/ IrrReturn
  \/ MonteCarloRequest
  \/ Simulate
  \/ Summarize
  \/ PostDelphi
  \/ ValidateDelphi
  \/ EstimateDelphi
  \/ ValidateRegression
  \/ EstimateRegression
  \/ RunDelphiEstimation
  \/ RunRegressionEstimation
  \/ ReadResponse
  \/ FetchFails

Spec == Init /\ [][Next]_vars


\* ------------------------------------------------------------------------
\* Consistency of the two renderings of the scheduler: the request run one
\* step at a time ends with the value of the function
\* ------------------------------------------------------------------------
StepwiseAgrees ==
  (method = "optimize" /\ pc = "done") =>
    /\ sortedTasks = topologicalSort(tasks)
    /\ optimizationResult =
         optimizeResourceAllocation(tasks, resources, projectDeadline)

\* ------------------------------------------------------------------------
\* Vocabulary of the properties
\* ------------------------------------------------------------------------
\* the optimize request has created its utilization arrays
Scheduling == method = "optimize" /\ pc \in {"schedule", "done", "leveled"}

Finished == method = "optimize" /\ pc \in {"done", "leveled"}

\* the availability multiplier of a period as the data model defines it:
\* the list reused cyclically, a 0 meaning not available
Multiplier(resource, period) ==
  resource.availability[(period % Len(resource.availability)) + 1]

TaskOf(taskId) == tasks[findTask(tasks, taskId)]

HasEntry(taskId) == \E e \in DOMAIN schedule : schedule[e].taskId = taskId

\* the prerequisites of a task that are tasks of the list
PrereqsOf(taskId) ==
  IF findTask(tasks, taskId) = 0 THEN {}
  ELSE Range(TaskOf(taskId).prerequisites) \cap {tasks[i].id : i \in DOMAIN tasks}

\* ids reachable from taskId along one or more prerequisite edges
RECURSIVE ReachableFrom(_, _)
ReachableFrom(frontier, seen) ==
  LET new == UNION {PrereqsOf(t) : t \in frontier} \ seen
  IN IF new = {} THEN seen ELSE ReachableFrom(new, seen \cup new)

Acyclic ==
  \A i \in DOMAIN tasks : tasks[i].id \notin ReachableFrom({tasks[i].id}, {})

\* ------------------------------------------------------------------------
\* C1: after every placement and in the result, the utilization committed on
\* a resource in a period is at most maxCapacity times the availability
\* multiplier of the period, also when the multiplier is 0.
\* The code reads a multiplier of 0 as 1 (availability[...] || 1), so a task
\* is placed on a period in which the resource is not available.
\* ------------------------------------------------------------------------
C1_UtilizationWithinCapacity ==
  Scheduling =>
    \A r \in DOMAIN resources : \A p \in 0..(maxPeriods - 1) :
      resourceUtilization[resources[r].id][p + 1]
        <= resources[r].maxCapacity * Multiplier(resources[r], p)

\* ------------------------------------------------------------------------
\* C2: for an acyclic prerequisite graph, every schedule entry of a task
\* starts at or after the end of the entry of each of its prerequisites,
\* whatever the order of the input list.
\* ------------------------------------------------------------------------
C2_StartsAfterPrerequisites ==
  (Scheduling /\ Acyclic) =>
    \A e \in DOMAIN schedule : \A f \in DOMAIN schedule :
      schedule[f].taskId \in Range(TaskOf(schedule[e].taskId).prerequisites)
        => schedule[e].startPeriod >= schedule[f].endPeriod

\* a dependent task listed before its prerequisite, with nothing to wait for
\* on the resources, is held back to the end of the prerequisite
C2_Witness ==
  /\ Finished /\ Acyclic
  /\ Len(tasks) = 2
  /\ tasks[1].prerequisites = <<tasks[2].id>>
  /\ tasks[1].requiredResources = <<>>
  /\ tasks[2].duration > 0
  /\ HasEntry(tasks[1].id) /\ HasEntry(tasks[2].id)
  /\ schedule[2].taskId = tasks[1].id
  /\ schedule[2].startPeriod = schedule[1].endPeriod
  /\ schedule[2].startPeriod > 0

\* ------------------------------------------------------------------------
\* C3: a task of positive duration that cannot be placed at any start period
\* up to the horizon (as when it needs a positive amount of a resource of
\* capacity 0) gets no schedule entry and commits no utilization, a conflict
\* naming it is recorded, and the tasks after it are still processed.
\* ------------------------------------------------------------------------
\* the task the loop over sortedTasks is at
CurrentTask == sortedTasks[cursor]

AtTask == method = "optimize" /\ pc = "schedule" /\ cursor <= Len(sortedTasks)

\* the task needs a positive amount of a resource whose capacity is 0
NeedsZeroCapacity(task) ==
  \E k \in DOMAIN task.requiredResources :
    LET r == findResource(resources, task.requiredResources[k].resourceId)
    IN /\ r # 0
       /\ resources[r].maxCapacity = 0
       /\ task.requiredResources[k].amount > 0

\* some requirement of the task does not fit at this start
DoesNotFit(task, start) ==
  \E k \in DOMAIN task.requiredResources :
    LET r == findResource(resources, task.requiredResources[k].resourceId)
    IN \/ r = 0
       \/ \E period \in start..(start + task.duration - 1) :
            resourceUtilization[resources[r].id][period + 1]
              + task.requiredResources[k].amount
              > availableCapacity(resources[r], period)

\* no start period from the earliest start to the horizon takes the task
NoStartFits(task) ==
  \A start \in getEarliestStartTime(task, schedule)..(maxPeriods - task.duration) :
    DoesNotFit(task, start)

NamedInConflicts(task, cs) == \E c \in DOMAIN cs : cs[c].name = task.name

C3_LeftUnscheduled ==
  (/\ AtTask
   /\ CurrentTask.duration > 0
   /\ NoStartFits(CurrentTask) \/ NeedsZeroCapacity(CurrentTask))
  => /\ schedule' = schedule
     /\ resourceUtilization' = resourceUtilization
     /\ Len(conflicts') = Len(conflicts) + 1
     /\ SubSeq(conflicts', 1, Len(conflicts)) = conflicts
     /\ conflicts'[Len(conflicts')].name = CurrentTask.name
     /\ cursor' = cursor + 1
     /\ pc' = "schedule"

C3_AllProcessed ==
  Finished =>
    /\ cursor = Len(sortedTasks) + 1
    /\ \A i \in DOMAIN tasks :
         HasEntry(tasks[i].id) \/ NamedInConflicts(tasks[i], conflicts)

\* C3: the iteration at a task that fits nowhere leaves the schedule and the
\* utilization as they are, appends one conflict naming the task and goes on
\* to the next task; at the end every task has an entry or a conflict
C3_InfeasibleTaskOnly == [][C3_LeftUnscheduled]_vars /\ []C3_AllProcessed

\* a task on a resource of capacity 0 was left out and a later task placed
C3_Witness ==
  /\ Finished
  /\ \E i \in DOMAIN sortedTasks : \E j \in DOMAIN sortedTasks :
       /\ i < j
       /\ sortedTasks[i].duration > 0
       /\ NeedsZeroCapacity(sortedTasks[i])
       /\ ~HasEntry(sortedTasks[i].id)
       /\ NamedInConflicts(sortedTasks[i], conflicts)
       /\ HasEntry(sortedTasks[j].id)

\* ------------------------------------------------------------------------
\* C4: B after A, both needing 1 of a resource of capacity 1 that is always
\* available, for 2 periods each: A is placed at [0,2), B starts at the end
\* of A, totalCost is the sum of amount x hourlyRate x duration of both and
\* there is no conflict, whichever of A and B comes first in the input (the
\* horizon being long enough for both, as the default one is).
\* ------------------------------------------------------------------------
ExampleInput ==
  /\ method = "optimize"
  /\ tasks \in ExampleTaskLists
  /\ LET r == findResource(resources, "R1")
     IN /\ r # 0
        /\ resources[r].maxCapacity = 1
        /\ Len(resources[r].availability) > 0
        /\ \A a \in DOMAIN resources[r].availability : resources[r].availability[a] = 1
  /\ maxPeriods >= 4

C4_ExampleSchedule ==
  (Finished /\ ExampleInput) =>
    LET rate == resources[findResource(resources, "R1")].hourlyRate
    IN /\ Len(schedule) = 2
       /\ \E a \in 1..2 : \E b \in 1..2 :
            /\ schedule[a].taskId = "A"
            /\ schedule[a].startPeriod = 0 /\ schedule[a].endPeriod = 2
            /\ schedule[b].taskId = "B"
            /\ schedule[b].startPeriod = schedule[a].endPeriod
            /\ schedule[b].endPeriod = 4
       /\ totalCost = (1 * rate * 2) + (1 * rate * 2)
       /\ conflicts = <<>>

\* the example with B first in the input and the one resource alone
C4_Witness ==
  /\ Finished /\ ExampleInput
  /\ tasks[1].id = "B"
  /\ Len(resources) = 1
  /\ projectDeadline = 0
  /\ projectDuration = 4

\* ------------------------------------------------------------------------
\* C5: optimizeResourceAllocation returns for every task list, also when the
\* prerequisites form cycles or name no task.
\* ------------------------------------------------------------------------
\* the call is under way
Running == method = "optimize" /\ pc \in {"topologicalSort", "schedule"}

\* the call is not stuck: a step of the sort is possible, or the loop over
\* sortedTasks is at a task or at its end
CanStep ==
  IF pc = "topologicalSort"
  THEN ENABLED (VisitTask \/ VisitPrerequisite \/ VisitReturn \/ StartScheduling)
  ELSE cursor \in 1..(Len(sortedTasks) + 1)

PrereqCount(taskId) ==
  IF findTask(tasks, taskId) = 0 THEN 0 ELSE Len(TaskOf(taskId).prerequisites)

\* steps the sort can still take: two per call still to make (the call and
\* the return of the visit it may start), one per active visit
SortMeasure ==
  LET frame == [k \in DOMAIN stack |->
                  2 * (PrereqCount(stack[k].taskId) - stack[k].j + 1) + 1]
      fresh == {tasks[i].id : i \in DOMAIN tasks} \ (visited \cup visiting)
      later == [id \in fresh |-> 2 * PrereqCount(id)]
  IN 2 * (Len(tasks) + 1 - next) + SumOver(frame, DOMAIN stack) + SumOver(later, fresh)

\* steps the call can still take
Measure ==
  IF pc = "topologicalSort" THEN SortMeasure + Len(tasks) + 3
  ELSE IF pc = "schedule" THEN (Len(sortedTasks) + 1 - cursor) + 1
  ELSE 0

C5_Progress == Running => (CanStep /\ Measure > 0)

C5_Decreases == Running => (Measure' < Measure /\ Measure' >= 0)

\* C5: the call is never stuck before it returns, and every step of it uses
\* up a measure that is a natural number, so it returns after finitely many
\* steps
C5_Terminates == []C5_Progress /\ [][C5_Decreases]_vars

\* a run that ended on a cycle through three tasks
C5_Witness ==
  /\ Finished
  /\ Len(tasks) = 3
  /\ \A i \in DOMAIN tasks : Len(tasks[i].prerequisites) = 1
  /\ \A i \in DOMAIN tasks :
       ReachableFrom({tasks[i].id}, {}) = {tasks[j].id : j \in DOMAIN tasks}
  /\ Len(schedule) + Len(conflicts) = 3

\* ------------------------------------------------------------------------
\* C6: totalCost is the sum, over the schedule entries and the resources
\* assigned in each, of amount x hourlyRate x (endPeriod - startPeriod);
\* projectDuration is the largest endPeriod, 0 for an empty schedule.
\* ------------------------------------------------------------------------
\* the (entry, resource) pairs of the schedule
Assignments ==
  {<<e, rid>> \in (DOMAIN schedule) \X (ResourceIds \cup {UnknownResource}) :
     rid \in DOMAIN schedule[e].assignedResources}

RateOf(rid) == resources[findResource(resources, rid)].hourlyRate

AssignmentCost ==
  [a \in Assignments |->
     schedule[a[1]].assignedResources[a[2]] * RateOf(a[2])
       * (schedule[a[1]].endPeriod - schedule[a[1]].startPeriod)]

C6_Metrics ==
  Finished =>
    /\ totalCost = SumOver(AssignmentCost, Assignments)
    /\ IF schedule = <<>> THEN projectDuration = 0
       ELSE /\ \E e \in DOMAIN schedule : schedule[e].endPeriod = projectDuration
            /\ \A e \in DOMAIN schedule : schedule[e].endPeriod <= projectDuration

\* two resources of different rates assigned, one task left out
C6_Witness ==
  /\ Finished
  /\ Len(schedule) = 1
  /\ Len(conflicts) = 1
  /\ DOMAIN schedule[1].assignedResources = {"R1", "R2"}
  /\ schedule[1].endPeriod - schedule[1].startPeriod = 2
  /\ totalCost = (3 * 2) + (5 * 2)

\* ------------------------------------------------------------------------
\* C7: a scenario with resourceMultiplier 1 and no timeConstraint gets the
\* result of optimizeResourceAllocation(baseTasks, baseResources) called
\* without a deadline: the same schedule, utilization, cost, duration and
\* conflicts.
\* ------------------------------------------------------------------------
IdentityScenario(scenario) ==
  scenario.resourceMultiplier = 1 /\ scenario.timeConstraint = 0

C7_IdentityScenario ==
  method = "scenario" =>
    \A i \in DOMAIN scenarioResults :
      IdentityScenario(scenarioResults[i].scenario) =>
        scenarioResults[i].result = optimizeResourceAllocation(tasks, resources, 0)

\* an identity scenario that scheduled both tasks, next to a scenario with
\* another result
C7_Witness ==
  /\ method = "scenario" /\ pc = "done"
  /\ Len(scenarioResults) = 2
  /\ IdentityScenario(scenarioResults[2].scenario)
  /\ Len(scenarioResults[2].result.schedule) = 2
  /\ scenarioResults[2].result.projectDuration > 2
  /\ scenarioResults[1].result # scenarioResults[2].result

\* ------------------------------------------------------------------------
\* C8: the engine leaves the task list and the resource list it is given
\* unchanged, and the result of a scenario is that of the scenario alone on
\* the lists as given: it does not depend on the scenarios run before it.
\* ------------------------------------------------------------------------
C8_InputsUnchanged ==
  pc # "idle" => (tasks' = tasks /\ resources' = resources)

C8_OwnResult ==
  method = "scenario" =>
    \A i \in DOMAIN scenarioResults :
      /\ scenarioResults[i] = scenarioRun(tasks, resources, scenarios[i])
      /\ \A j \in DOMAIN scenarioResults :
           scenarios[i] = scenarios[j] => scenarioResults[i] = scenarioResults[j]

\* C8: no step after the request is read changes the task list or the
\* resource list, and every scenario result is the one of its scenario alone
C8_NoAliasing == [][C8_InputsUnchanged]_vars /\ []C8_OwnResult

\* a scenario that doubles a positive capacity ran before an identity scenario
C8_Witness ==
  /\ method = "scenario" /\ pc = "done"
  /\ Len(scenarioResults) = 2
  /\ scenarios[1].resourceMultiplier = 2
  /\ IdentityScenario(scenarios[2])
  /\ \E r \in DOMAIN resources : resources[r].maxCapacity > 0
  /\ scenarioResults[1].result.schedule # scenarioResults[2].result.schedule

\* ------------------------------------------------------------------------
\* C9: performResourceLeveling returns the schedule, utilization, cost and
\* duration of its input, and its conflicts are those of the input followed
\* by exactly one message for every (resource, period) whose usage exceeds
\* maxCapacity times the availability multiplier of the period, also when
\* the multiplier is 0.
\* The code reads a multiplier of 0 as 1 (availability[...] || 1) and so
\* reports nothing for a used period in which the resource is not available.
\* ------------------------------------------------------------------------
\* the (resource, period) pairs over capacity
OverCapacity ==
  {<<r, p>> \in (DOMAIN levelingResources) \X (0..(maxPeriods - 1)) :
     /\ levelingResources[r].id \in DOMAIN resourceUtilization
     /\ resourceUtilization[levelingResources[r].id][p + 1]
          > levelingResources[r].maxCapacity * Multiplier(levelingResources[r], p)}

\* the messages the leveling added
Added ==
  SubSeq(levelingResult.conflicts, Len(conflicts) + 1, Len(levelingResult.conflicts))

C9_LevelingReports ==
  pc = "leveled" =>
    /\ levelingResult.schedule = schedule
    /\ levelingResult.resourceUtilization = resourceUtilization
    /\ levelingResult.totalCost = totalCost
    /\ levelingResult.projectDuration = projectDuration
    /\ Len(levelingResult.conflicts) >= Len(conflicts)
    /\ SubSeq(levelingResult.conflicts, 1, Len(conflicts)) = conflicts
    /\ Len(Added) = Cardinality(OverCapacity)
    /\ \A op \in OverCapacity : \E m \in DOMAIN Added :
         /\ Added[m].name = levelingResources[op[1]].name
         /\ Added[m].period = op[2]

\* ------------------------------------------------------------------------
\* C10: the expectedValue analyzeDecisionTree reports is the value of the
\* root computed bottom-up: an outcome is worth value - cost, a chance node
\* the sum over its children of probability x value of the child, a decision
\* node the greatest of the values of its children, at any depth. (A decision
\* node without children has no greatest child value; the trees of the
\* property give every decision node a child.)
\* ------------------------------------------------------------------------
\* the analysis of the tree has returned
Analyzed == method = "decisionTree" /\ pc = "done"

DecisionsHaveChildren ==
  \A n \in DOMAIN decisionTree :
    decisionTree[n].type = "decision" => decisionTree[n].children # <<>>

\* the sum of the fractions f[k], k in S
RECURSIVE FracSum(_, _)
FracSum(f, S) ==
  IF S = {} THEN FracInt(0)
  ELSE LET k == CHOOSE j \in S : TRUE IN FracAdd(f[k], FracSum(f, S \ {k}))

\* the value of every node, the children before their parents
NodeValue[n \in DOMAIN decisionTree] ==
  LET node == decisionTree[n]
      kids == DOMAIN node.children
      worth == [k \in kids |-> NodeValue[node.children[k]]]
  IN CASE node.type = "outcome" -> FracInt(node.value - node.cost)
       [] node.type = "chance" ->
            FracSum([k \in kids |->
                       FracMul(Frac(decisionTree[node.children[k]].probability, 10),
                               worth[k])], kids)
       [] node.type = "decision" ->
            worth[CHOOSE k \in kids : \A j \in kids : ~FracLess(worth[k], worth[j])]

C10_ExpectedValueBottomUp ==
  (Analyzed /\ DecisionsHaveChildren) => analysis.expectedValue = NodeValue[1]

\* levels of the tree below node n
RECURSIVE Height(_)
Height(n) ==
  IF decisionTree[n].children = <<>> THEN 0
  ELSE LET below == {Height(decisionTree[n].children[k]) :
                       k \in DOMAIN decisionTree[n].children}
       IN 1 + CHOOSE h \in below : \A g \in below : g <= h

\* a tree of four levels, decision and chance nodes alternating, whose value
\* is not that of an outcome and is not a whole number
C10_Witness ==
  /\ Analyzed /\ DecisionsHaveChildren
  /\ Height(1) = 4
  /\ decisionTree[1].type = "decision"
  /\ decisionTree[2].type = "chance"
  /\ decisionTree[4].type = "decision"
  /\ decisionTree[6].type = "chance"
  /\ analysis.expectedValue.den > 1
  /\ analysis.expectedValue.num > 0

\* ------------------------------------------------------------------------
\* C11: at a decision node whose two best children have expected values
\* that differ by 5% or more of their average, the walk takes the child of
\* the higher expected value, whatever the signs of the values.
\* The code computes the percentage only when the average is positive and
\* takes it as 0 otherwise, so for an average of 0 or less the risk scores
\* decide and the child of the lower expected value can be taken.
\* ------------------------------------------------------------------------
\* the decision nodes of the analysed tree that have two options or more
DecisionNodes ==
  {n \in DOMAIN decisionTree :
     /\ decisionTree[n].type = "decision"
     /\ Len(decisionTree[n].children) >= 2}

\* the children of node n have names of their own
NamedApart(n) ==
  \A j, k \in DOMAIN decisionTree[n].children :
    decisionTree[decisionTree[n].children[j]].name
      = decisionTree[decisionTree[n].children[k]].name => j = k

\* the expected values of the children of node n, in child order
ChildValues(n) ==
  [k \in DOMAIN decisionTree[n].children |->
     calculateExpectedValue(decisionTree, decisionTree[n].children[k])]

\* the position of the best child of node n, and of the best of the others
BestChild(n) == firstGreatest(ChildValues(n), DOMAIN decisionTree[n].children)

SecondChild(n) ==
  firstGreatest(ChildValues(n), DOMAIN decisionTree[n].children \ {BestChild(n)})

ChildName(n, k) == decisionTree[decisionTree[n].children[k]].name

\* the walk from node n
WalkFrom(n) == findBestPathWithRiskAnalysis(decisionTree, n, <<>>)

\* |a - b| is at least 5% of |(a + b) / 2|, and a and b differ
DifferByFivePercent(a, b) ==
  /\ a # b
  /\ ~FracLess(FracMul(FracAbs(FracSub(a, b)), FracInt(100)),
               FracMul(FracAbs(FracDiv(FracAdd(a, b), FracInt(2))), FracInt(5)))

\* the walk from node n went into its child at position k
Took(n, k) ==
  /\ WalkFrom(n).riskAnalysis.bestOption = ChildName(n, k)
  /\ WalkFrom(n).path[2] = ChildName(n, k)

C11_HigherValueTaken ==
  Analyzed =>
    \A n \in DecisionNodes :
      (/\ ~WalkFrom(n).raised
       /\ NamedApart(n)
       /\ DifferByFivePercent(ChildValues(n)[BestChild(n)],
                              ChildValues(n)[SecondChild(n)]))
      => Took(n, BestChild(n))

\* ------------------------------------------------------------------------
\* C12: at a decision node whose two best children have expected values
\* within 5% of their average, the tie-break fires: the child taken is the
\* one of the higher score 30 x successProbability + bonus (Low 25, Medium
\* 15, High 5) + min(ROI / 10, 20) + max(0, worstCase / 10000), the child of
\* the higher expected value being kept on equal scores, and the reasoning is
\* not empty.
\* The code does so only when both children have a risk profile, that is a
\* success and a failure outcome among their own children; otherwise it keeps
\* the child of the higher expected value with the one line of a clear
\* advantage.
\* ------------------------------------------------------------------------
\* the risk profile of the child at position k of node n
ProfileOf(n, k) == calculateRiskMetrics(decisionTree, decisionTree[n].children[k])

HasProfiles(n) ==
  /\ ~ProfileOf(n, BestChild(n)).isNull
  /\ ~ProfileOf(n, SecondChild(n)).isNull

\* the weighted risk score of a risk profile
Bonus(riskLevel) ==
  CASE riskLevel = "Low" -> 25 [] riskLevel = "Medium" -> 15 [] OTHER -> 5

WeightedScore(profile) ==
  FracAdd(
    FracAdd(FracMul(FracInt(30), profile.successProbability),
            FracInt(Bonus(profile.riskLevel))),
    FracAdd(FracMin(FracDiv(profile.roi, FracInt(10)), FracInt(20)),
            FracMax(FracInt(0), FracDiv(FracInt(profile.worstCase), FracInt(10000)))))

WithinFivePercent(n) ==
  ~DifferByFivePercent(ChildValues(n)[BestChild(n)],
                       ChildValues(n)[SecondChild(n)])

SecondScoresMore(n) ==
  FracLess(WeightedScore(ProfileOf(n, BestChild(n))),
           WeightedScore(ProfileOf(n, SecondChild(n))))

\* the tie-break fired at node n and took the child of the higher score
TieBroken(n) ==
  /\ Len(WalkFrom(n).riskAnalysis.reasoning) >= 2
  /\ WalkFrom(n).riskAnalysis.reasoning[1].text = "Expected values are very close"
  /\ Took(n, IF SecondScoresMore(n) THEN SecondChild(n) ELSE BestChild(n))

\* the child of the higher expected value was taken for its value alone
TakenForValue(n) ==
  /\ Len(WalkFrom(n).riskAnalysis.reasoning) = 1
  /\ WalkFrom(n).riskAnalysis.reasoning[1].text = "Clear expected value advantage"
  /\ Took(n, BestChild(n))

\* the nodes the property is about
CloseDecisions ==
  {n \in DecisionNodes :
     ~WalkFrom(n).raised /\ NamedApart(n) /\ WithinFivePercent(n)}

\* C12 as stated: the tie-break fires at every such node
C12_TieBreakFires ==
  Analyzed => \A n \in CloseDecisions : TieBroken(n)

\* C12 for the nodes whose two best children have risk profiles, and what
\* happens at the others
C12_TieBreakWithProfiles ==
  Analyzed =>
    \A n \in CloseDecisions :
      IF HasProfiles(n) THEN TieBroken(n) ELSE TakenForValue(n)

\* a tie-break that took the second child for its score
C12_Witness ==
  /\ Analyzed
  /\ \E n \in CloseDecisions :
       HasProfiles(n) /\ SecondScoresMore(n) /\ Took(n, SecondChild(n))

\* ------------------------------------------------------------------------
\* C13: at a chance node the walk goes into the child of the highest
\* probability, whatever the expected values, and into the first such child
\* in child order when several have that probability.
\* ------------------------------------------------------------------------
ChanceNodes ==
  {n \in DOMAIN decisionTree :
     /\ decisionTree[n].type = "chance"
     /\ Len(decisionTree[n].children) >= 1}

ChildProbability(n, k) == decisionTree[decisionTree[n].children[k]].probability

\* the positions of the children of node n that no child exceeds in probability
MostProbable(n) ==
  {k \in DOMAIN decisionTree[n].children :
     \A j \in DOMAIN decisionTree[n].children :
       ChildProbability(n, j) <= ChildProbability(n, k)}

FirstMostProbable(n) ==
  CHOOSE k \in MostProbable(n) : \A j \in MostProbable(n) : k <= j

\* the walk from node n is n followed by the walk from its child at k
Descends(n, k) ==
  /\ WalkFrom(n).raised = WalkFrom(decisionTree[n].children[k]).raised
  /\ ~WalkFrom(n).raised =>
       /\ WalkFrom(n).path
            = <<decisionTree[n].name>> \o WalkFrom(decisionTree[n].children[k]).path
       /\ WalkFrom(n).riskAnalysis
            = WalkFrom(decisionTree[n].children[k]).riskAnalysis

C13_MostProbableChild ==
  Analyzed => \A n \in ChanceNodes : Descends(n, FirstMostProbable(n))

\* the analysis went through a chance node of which two children share the
\* highest probability and the second of them has the higher expected value
C13_Witness ==
  /\ Analyzed
  /\ \E n \in ChanceNodes :
       /\ decisionTree[n].name \in Range(analysis.bestPath)
       /\ Cardinality(MostProbable(n)) >= 2
       /\ \E k \in MostProbable(n) :
            FracLess(ChildValues(n)[FirstMostProbable(n)], ChildValues(n)[k])
       /\ Descends(n, FirstMostProbable(n))

\* ------------------------------------------------------------------------
\* C14: analyzeDecisionTree returns a result and does not raise, whatever
\* the number of children of each node of the tree: none, one or several.
\* At a decision node with exactly one child the code reads expectedValue
\* of childAnalysis[1], which is undefined, and raises.
\* ------------------------------------------------------------------------
\* the request carried a tree and the analysis has ended
AnalysisEnded ==
  method = "decisionTree" /\ decisionTree # NoTree /\ pc # "analyze"

C14_NeverRaises ==
  AnalysisEnded =>
    /\ pc = "done"
    /\ ~analyzeDecisionTree(decisionTree).raised
    /\ analysis = analyzeDecisionTree(decisionTree).result

\* ------------------------------------------------------------------------
\* C19: a task is placed at the smallest start period s, from its earliest
\* start on and with s + duration within the horizon, at which every one of
\* its requirements fits in every period of [s, s + duration), given the
\* utilization committed by the tasks placed before it.
\* A requirement fits in a period when the committed utilization plus its
\* amount is at most maxCapacity times the availability multiplier of the
\* period. The code reads a multiplier of 0 as 1, so a task is placed at a
\* start at which a requirement does not fit.
\* ------------------------------------------------------------------------
\* every requirement of the task fits in every period of [start, start + duration)
FitsAt(task, start) ==
  \A k \in DOMAIN task.requiredResources :
    LET r == findResource(resources, task.requiredResources[k].resourceId)
    IN /\ r # 0
       /\ \A period \in start..(start + task.duration - 1) :
            resourceUtilization[resources[r].id][period + 1]
              + task.requiredResources[k].amount
              <= resources[r].maxCapacity * Multiplier(resources[r], period)

\* the start periods of the range at which the task fits
FittingStarts(task) ==
  {start \in getEarliestStartTime(task, schedule)..(maxPeriods - task.duration) :
     FitsAt(task, start)}

SmallestOf(S) == CHOOSE s \in S : \A t \in S : s <= t

\* the iteration at the current task adds its entry at the given start
PlacedAt(start) ==
  /\ Len(schedule') = Len(schedule) + 1
  /\ SubSeq(schedule', 1, Len(schedule)) = schedule
  /\ schedule'[Len(schedule')].taskId = CurrentTask.id
  /\ schedule'[Len(schedule')].startPeriod = start
  /\ schedule'[Len(schedule')].endPeriod = start + CurrentTask.duration

C19_Iteration ==
  AtTask =>
    IF FittingStarts(CurrentTask) = {}
    THEN schedule' = schedule
    ELSE PlacedAt(SmallestOf(FittingStarts(CurrentTask)))

C19_SmallestFittingStart == [][C19_Iteration]_vars

\* ------------------------------------------------------------------------
\* C20: after every placement and in the result, resourceUtilization has one
\* array of the length of the horizon for each resource, and its value for a
\* resource and a period is the sum of the amounts of the resource assigned
\* to the schedule entries that cover the period; a period no entry covers
\* stays 0, and a task that is left unscheduled changes no array.
\* ------------------------------------------------------------------------
\* the schedule entries that hold the resource in the period
Covering(rid, period) ==
  {e \in DOMAIN schedule :
     /\ rid \in DOMAIN schedule[e].assignedResources
     /\ schedule[e].startPeriod <= period
     /\ period < schedule[e].endPeriod}

AssignedAmount(rid) ==
  [e \in {d \in DOMAIN schedule : rid \in DOMAIN schedule[d].assignedResources} |->
     schedule[e].assignedResources[rid]]

C20_SumOfEntries ==
  Scheduling =>
    /\ DOMAIN resourceUtilization = {resources[r].id : r \in DOMAIN resources}
    /\ optimizationResult.resourceUtilization = resourceUtilization
    /\ \A rid \in DOMAIN resourceUtilization :
         /\ Len(resourceUtilization[rid]) = maxPeriods
         /\ \A period \in 0..(maxPeriods - 1) :
              resourceUtilization[rid][period + 1]
                = SumOver(AssignedAmount(rid), Covering(rid, period))

C20_UnscheduledChangesNothing ==
  (AtTask /\ schedule' = schedule) => resourceUtilization' = resourceUtilization

C20_UtilizationIsCommitted ==
  []C20_SumOfEntries /\ [][C20_UnscheduledChangesNothing]_vars

\* two entries hold a resource in one period, an entry lasts two periods
\* and a period is covered by no entry
C20_Witness ==
  /\ Finished
  /\ \E rid \in DOMAIN resourceUtilization :
       /\ \E period \in 0..(maxPeriods - 1) :
            /\ Cardinality(Covering(rid, period)) = 2
            /\ resourceUtilization[rid][period + 1] = 2
       /\ \E period \in 0..(maxPeriods - 1) :
            /\ Covering(rid, period) = {}
            /\ resourceUtilization[rid][period + 1] = 0
       /\ \E e \in DOMAIN schedule :
            /\ rid \in DOMAIN schedule[e].assignedResources
            /\ schedule[e].endPeriod = schedule[e].startPeriod + 2

\* ------------------------------------------------------------------------
\* C15: calculateDelphiEstimation returns defined numbers in the degenerate
\* cases: for no expert all four outputs are 0, and for one expert or more
\* whose confidences are all 0 finalEstimate is a number, not what a
\* division by zero gives.
\* The code divides the weighted sum by the sum of the confidences without
\* a test, so for confidences that are all 0 finalEstimate is 0 / 0, NaN.
\* ------------------------------------------------------------------------
DelphiReturned == method = "delphi" /\ pc = "done"

AllConfidencesZero ==
  /\ arguments.estimates # <<>>
  /\ \A k \in DOMAIN arguments.estimates : arguments.estimates[k].confidence = 0

C15_DelphiDefined ==
  DelphiReturned =>
    /\ arguments.estimates = <<>> =>
         /\ answer.finalEstimate = FracInt(0)
         /\ answer.consensus = FracInt(0)
         /\ answer.pert = FracInt(0)
         /\ answer.confidenceWeightedAverage = FracInt(0)
    /\ AllConfidencesZero => isFinite(answer.finalEstimate)

\* ------------------------------------------------------------------------
\* C16: calculatePaybackPeriod returns the index of the first period at
\* which the cumulative cash flow, starting from -initialInvestment, is 0
\* or more, plus the fraction of the cash flow of that period that is needed
\* to reach 0: 2.5 for [100, 100, 100] and 250; it returns the number of
\* periods when the cumulative cash flow never reaches 0; the result always
\* lies between 0 and the number of periods.
\* For an investment of 0 and a first cash flow of 0 the code divides 0 by
\* 0 and returns NaN.
\* ------------------------------------------------------------------------
PaybackReturned == method = "paybackPeriod" /\ pc = "done"

\* the cumulative cash flow after the first k periods
CumulativeAfter(k) ==
  SumOver(arguments.cashFlows, 1..k) - arguments.initialInvestment

\* the periods, counted from 1, at whose end the investment is recovered
Recovered == {k \in DOMAIN arguments.cashFlows : CumulativeAfter(k) >= 0}

FirstRecovered == CHOOSE k \in Recovered : \A j \in Recovered : k <= j

Periods == FracInt(Len(arguments.cashFlows))

C16_PaybackPeriod ==
  PaybackReturned =>
    /\ isFinite(answer)
    /\ ~FracLess(answer, FracInt(0))
    /\ ~FracLess(Periods, answer)
    /\ Recovered = {} => answer = Periods
    /\ (Recovered # {} /\ arguments.cashFlows[FirstRecovered] # 0) =>
         answer = FracAdd(FracInt(FirstRecovered - 1),
                          Frac(-CumulativeAfter(FirstRecovered - 1),
                               arguments.cashFlows[FirstRecovered]))
    /\ (/\ arguments.cashFlows = <<100, 100, 100>>
        /\ arguments.initialInvestment = 250) => answer = Frac(5, 2)

\* ------------------------------------------------------------------------
\* C18: when the iteration of calculateIRR stops because |NPV| < 0.01, the
\* NPV of the cash flows at the returned rate (a percentage, divided by 100)
\* is within 1 of 0; calculateIRR returns after at most maxIterations
\* iterations, and returns the last iterate when it has not converged or
\* the derivative is 0.
\* ------------------------------------------------------------------------
IrrRunning == method = "irr" /\ pc = "irr"

IrrReturned == method = "irr" /\ pc = "done"

AllCashFlows ==
  allCashFlowsOf(arguments.cashFlows, arguments.initialInvestment)

\* the NPV of the cash flows at the returned percentage
NpvAtReturned ==
  calculateNPV(arguments.cashFlows, FracDiv(answer.irr, FracInt(100)),
               arguments.initialInvestment)

C18_WithinBound ==
  (IrrRunning \/ IrrReturned) => answer.i <= arguments.maxIterations

C18_RoundTrip ==
  (IrrReturned /\ converged(AllCashFlows, answer.rate)) =>
    /\ ~FracLess(FracInt(1), NpvAtReturned)
    /\ ~FracLess(NpvAtReturned, FracInt(-1))

\* a step of the call is an iteration, which counts, or the return, which
\* gives back the iterate the loop has arrived at
C18_Step ==
  IrrRunning =>
    \/ /\ pc' = "irr"
       /\ answer'.i = answer.i + 1
       /\ ~converged(AllCashFlows, answer.rate)
       /\ ~flat(AllCashFlows, answer.rate)
    \/ /\ pc' = "done"
       /\ answer'.irr = percent(answer.rate)
       /\ answer'.i = answer.i

C18_IrrStopsAndAgrees ==
  [](C18_WithinBound /\ C18_RoundTrip) /\ [][C18_Step]_vars

\* the rate was found after an iteration or more, with an NPV that is not 0
C18_Witness ==
  /\ IrrReturned
  /\ answer.i >= 1
  /\ answer.i < arguments.maxIterations
  /\ converged(AllCashFlows, answer.rate)
  /\ NpvAtReturned # FracInt(0)

\* ------------------------------------------------------------------------
\* C17: with the three risk factors 0, monteCarloSimulation pushes a
\* simulated value equal to baseValue in every iteration whatever is drawn,
\* and returns mean = baseValue, standardDeviation = 0 and p10 = p50 = p90 =
\* baseValue, for every number of iterations from 1 on
\* ------------------------------------------------------------------------
NoRisk ==
  /\ method = "monteCarlo"
  /\ arguments.riskFactors = RiskFactors(Zero, Zero, Zero)

Simulating == method = "monteCarlo" /\ pc = "simulate"

MonteCarloReturned == method = "monteCarlo" /\ pc = "done"

EveryValueIsBase ==
  \A k \in 1..Len(answer.results) : answer.results[k] = arguments.baseValue

PercentilesAreBase ==
  /\ answer.percentiles.p10 = arguments.baseValue
  /\ answer.percentiles.p50 = arguments.baseValue
  /\ answer.percentiles.p90 = arguments.baseValue

MeanIsBase == answer.mean = arguments.baseValue

NoDeviation == answer.standardDeviation = Zero

C17_ZeroRiskIsExact ==
  /\ (Simulating /\ NoRisk) => EveryValueIsBase
  /\ (MonteCarloReturned /\ NoRisk) =>
       (MeanIsBase /\ NoDeviation /\ PercentilesAreBase)

\* ------------------------------------------------------------------------
\* C21: among the tasks that have no dependency relation (no prerequisite,
\* and prerequisite of no task), the order in which the scheduler considers
\* the tasks follows their priority, one way or the other, and tasks of equal
\* priority are considered in input order
\* ------------------------------------------------------------------------
Free(task) ==
  /\ task.prerequisites = <<>>
  /\ \A i \in DOMAIN tasks : task.id \notin Range(tasks[i].prerequisites)

FreePairs ==
  {p \in (DOMAIN sortedTasks) \X (DOMAIN sortedTasks) :
     p[1] < p[2] /\ Free(sortedTasks[p[1]]) /\ Free(sortedTasks[p[2]])}

HigherFirst ==
  \A p \in FreePairs : sortedTasks[p[1]].priority >= sortedTasks[p[2]].priority

LowerFirst ==
  \A p \in FreePairs : sortedTasks[p[1]].priority <= sortedTasks[p[2]].priority

TiesInInputOrder ==
  \A p \in FreePairs :
    sortedTasks[p[1]].priority = sortedTasks[p[2]].priority =>
      findTask(tasks, sortedTasks[p[1]].id) < findTask(tasks, sortedTasks[p[2]].id)

C21_PriorityOrders ==
  Scheduling => ((HigherFirst \/ LowerFirst) /\ TiesInInputOrder)

\* ------------------------------------------------------------------------
\* C22: the cost estimation request of method 'delphi' reaches
\* calculateDelphiEstimation only when the estimate list is not empty and
\* every estimate has numeric fields with 0 <= optimistic <= mostLikely <=
\* pessimistic and 0 <= confidence <= 1; every other body is answered with
\* status 400 and an error message, and the engine is not called for it
\* ------------------------------------------------------------------------
IsNumber(v) == v.type = "number"

ValidEstimate(e) ==
  /\ e # Null
  /\ IsNumber(e.optimistic) /\ IsNumber(e.mostLikely)
  /\ IsNumber(e.pessimistic) /\ IsNumber(e.confidence)
  /\ 0 <= e.optimistic.value
  /\ e.optimistic.value <= e.mostLikely.value
  /\ e.mostLikely.value <= e.pessimistic.value
  /\ 0 <= e.confidence.value /\ e.confidence.value <= 10

ValidBody ==
  /\ arguments.data # Undefined
  /\ arguments.data.estimates # Undefined
  /\ arguments.data.estimates.items # <<>>
  /\ \A k \in DOMAIN arguments.data.estimates.items :
       ValidEstimate(arguments.data.estimates.items[k])

AtEngine == method = "costEstimation" /\ pc = "estimate"

Answered == method = "costEstimation" /\ pc = "done"

EngineCalled == answer.status = 200

C22_EngineOnlyWhenValid ==
  /\ AtEngine => ValidBody
  /\ (Answered /\ EngineCalled) => ValidBody

C22_InvalidRejected ==
  (Answered /\ ~ValidBody) => (answer.status = 400 /\ answer.error # "")

C22_ValidatedOrRejected == C22_EngineOnlyWhenValid /\ C22_InvalidRejected

\* ------------------------------------------------------------------------
\* C23: for a task list with unique ids, every task ends in exactly one of
\* two ways in the result of optimizeResourceAllocation: one schedule entry
\* or one 'Cannot schedule task' conflict; so the schedule entries and the
\* conflicts together are as many as the tasks, and the riskLevel of a
\* scenario (conflicts / tasks) lies between 0 and 1
\* ------------------------------------------------------------------------
EntriesOf(res, task) ==
  {e \in DOMAIN res.schedule : res.schedule[e].taskId = task.id}

RefusalsOf(res, task) ==
  {c \in DOMAIN res.conflicts : res.conflicts[c] = cannotSchedule(task)}

OneOutcomeEach(res) ==
  /\ \A i \in DOMAIN tasks :
       Cardinality(EntriesOf(res, tasks[i]))
         + Cardinality(RefusalsOf(res, tasks[i])) = 1
  /\ Len(res.schedule) + Len(res.conflicts) = Len(tasks)

WithinUnit(ratio) ==
  ratio.den > 0 /\ 0 <= ratio.num /\ ratio.num <= ratio.den

C23_OneOutcomePerTask ==
  /\ Finished => OneOutcomeEach(optimizationResult)
  /\ method = "scenario" =>
       \A k \in DOMAIN scenarioResults :
         /\ OneOutcomeEach(scenarioResults[k].result)
         /\ WithinUnit(scenarioResults[k].metrics.riskLevel)
         /\ scenarioResults[k].metrics.riskLevel =
              Ratio(Len(scenarioResults[k].result.conflicts), Len(tasks))

\* a result with a placed task and a task that could not be placed
C23_Witness ==
  /\ Finished
  /\ schedule # <<>>
  /\ conflicts # <<>>

\* ------------------------------------------------------------------------
\* C24: every schedule entry has 0 <= startPeriod, endPeriod = startPeriod
\* + duration of its task and endPeriod <= the horizon (projectDeadline when
\* it is given and not 0, else 100); so projectDuration <= the horizon, and
\* a task whose earliest start plus duration exceeds the horizon gets no
\* schedule entry
\* ------------------------------------------------------------------------
Horizon == IF projectDeadline = 0 THEN DefaultPeriods ELSE projectDeadline

EntryWithinHorizon(entry, duration) ==
  /\ 0 <= entry.startPeriod
  /\ entry.endPeriod = entry.startPeriod + duration
  /\ entry.endPeriod <= Horizon

C24_Entries ==
  /\ Scheduling =>
       \A e \in DOMAIN schedule :
         \E i \in DOMAIN tasks :
           /\ tasks[i].id = schedule[e].taskId
           /\ EntryWithinHorizon(schedule[e], tasks[i].duration)
  /\ Finished => (0 <= projectDuration /\ projectDuration <= Horizon)

\* the iteration of the task at the cursor
C24_Iteration ==
  AtTask =>
    LET earliest == getEarliestStartTime(CurrentTask, schedule)
    IN /\ earliest + CurrentTask.duration > Horizon =>
            (schedule' = schedule /\ conflicts' # conflicts)
       /\ schedule' # schedule =>
            /\ Len(schedule') = Len(schedule) + 1
            /\ schedule'[Len(schedule')].taskId = CurrentTask.id
            /\ schedule'[Len(schedule')].startPeriod >= earliest
            /\ EntryWithinHorizon(schedule'[Len(schedule')], CurrentTask.duration)

C24_WithinHorizon == []C24_Entries /\ [][C24_Iteration]_vars

\* a finished run with a deadline in which a task has an entry and another,
\* which could start only after a scheduled prerequisite, was left out
C24_Witness ==
  /\ Finished
  /\ projectDeadline # 0
  /\ schedule # <<>>
  /\ \E i \in DOMAIN tasks :
       /\ ~HasEntry(tasks[i].id)
       /\ getEarliestStartTime(tasks[i], schedule) > 0
       /\ getEarliestStartTime(tasks[i], schedule) + tasks[i].duration > Horizon

\* ------------------------------------------------------------------------
\* C25: a prerequisite without a schedule entry (a task that was left
\* unscheduled, or an id that names no task) never blocks its dependent:
\* the dependent is placed as if it had only the prerequisites that have an
\* entry, from the latest of their ends on, from 0 when none has an entry
\* ------------------------------------------------------------------------
ScheduledPrereqs(task) ==
  {task.prerequisites[j] : j \in {k \in DOMAIN task.prerequisites :
                                    HasEntry(task.prerequisites[k])}}

HasUnscheduledPrereq(task) ==
  \E j \in DOMAIN task.prerequisites : ~HasEntry(task.prerequisites[j])

\* the end of the first entry of the task
EndOf(taskId) ==
  LET first == CHOOSE e \in DOMAIN schedule :
                 /\ schedule[e].taskId = taskId
                 /\ \A f \in 1..(e - 1) : schedule[f].taskId # taskId
  IN schedule[first].endPeriod

LatestScheduledEnd(task) ==
  LET ends == {EndOf(p) : p \in ScheduledPrereqs(task)} \cup {0}
  IN CHOOSE m \in ends : \A n \in ends : n <= m

\* the starts the scan of scheduleTask accepts from a given start on
StartsFrom(task, earliest) ==
  {start \in earliest..(maxPeriods - task.duration) :
     canSchedule(task, resources, resourceUtilization, start)}

C25_Iteration ==
  AtTask =>
    LET starts == StartsFrom(CurrentTask, LatestScheduledEnd(CurrentTask))
    IN IF starts = {}
       THEN schedule' = schedule
       ELSE PlacedAt(SmallestOf(starts))

C25_NotBlocked == [][C25_Iteration]_vars

\* a finished run in which a task has an entry although one of its
\* prerequisites has none, starting at the end of a prerequisite that has
C25_Witness ==
  /\ Finished
  /\ \E i \in DOMAIN tasks :
       /\ HasEntry(tasks[i].id)
       /\ HasUnscheduledPrereq(tasks[i])
       /\ LatestScheduledEnd(tasks[i]) > 0
       /\ schedule[findEntry(schedule, tasks[i].id)].startPeriod
            >= LatestScheduledEnd(tasks[i])

\* ------------------------------------------------------------------------
\* C26: for a task list with unique ids topologicalSort returns a
\* permutation of the input, also when the prerequisite graph has cycles or
\* names ids that are not in the list; in an acyclic graph every task comes
\* after all of its prerequisites; on a cycle some task is ordered before
\* one of its own prerequisites, and no cycle is reported in the conflicts.
\* A task that is its own prerequisite is a cycle on which nothing can come
\* before its prerequisite: the statement holds for cycles through two or
\* more tasks, and on a self loop the task is merely not after itself.
\* ------------------------------------------------------------------------
UniqueIds ==
  \A i, j \in DOMAIN tasks : tasks[i].id = tasks[j].id => i = j

IsPermutation(sorted) ==
  /\ Len(sorted) = Len(tasks)
  /\ \A i \in DOMAIN tasks :
       Cardinality({k \in DOMAIN sorted : sorted[k] = tasks[i]}) = 1

PositionOf(taskId) ==
  CHOOSE k \in DOMAIN sortedTasks : sortedTasks[k].id = taskId

\* the prerequisite edges of the list: task, prerequisite that names a task
Edges ==
  {<<tasks[i].id, p>> : i \in DOMAIN tasks, p \in TaskIds} \cap
  {edge \in TaskIds \X TaskIds : edge[2] \in PrereqsOf(edge[1])}

AfterAllPrerequisites ==
  \A edge \in Edges : PositionOf(edge[2]) < PositionOf(edge[1])

SomeTaskBeforePrerequisite ==
  \E edge \in Edges : PositionOf(edge[1]) < PositionOf(edge[2])

SomeTaskNotAfterPrerequisite ==
  \E edge \in Edges : PositionOf(edge[1]) <= PositionOf(edge[2])

\* a cycle through two or more tasks
HasLongCycle ==
  \E edge \in Edges :
    /\ edge[1] # edge[2]
    /\ edge[1] \in ReachableFrom({edge[2]}, {})

OnlySelfLoops == ~Acyclic /\ ~HasLongCycle

NoCycleReported ==
  \A c \in DOMAIN conflicts :
    \E i \in DOMAIN tasks : conflicts[c] = cannotSchedule(tasks[i])

Sorted == Scheduling /\ UniqueIds

\* the statement as it stands: on every cycle a task before a prerequisite
C26_SortOrder ==
  Sorted =>
    /\ IsPermutation(sortedTasks)
    /\ Acyclic => AfterAllPrerequisites
    /\ ~Acyclic => SomeTaskBeforePrerequisite
    /\ NoCycleReported

\* the statement with the self loop set apart
C26_SortOrderBeyondSelfLoops ==
  Sorted =>
    /\ IsPermutation(sortedTasks)
    /\ sortedTasks = topologicalSort(tasks)
    /\ Acyclic => AfterAllPrerequisites
    /\ HasLongCycle => SomeTaskBeforePrerequisite
    /\ ~Acyclic => SomeTaskNotAfterPrerequisite
    /\ NoCycleReported

\* a finished run on a list with a cycle through two or more tasks and an
\* id that names no task
C26_Witness ==
  /\ Finished
  /\ UniqueIds
  /\ HasLongCycle
  /\ \E i \in DOMAIN tasks : UnknownTask \in Range(tasks[i].prerequisites)
  /\ SomeTaskBeforePrerequisite

\* ------------------------------------------------------------------------
\* C27: performResourceLeveling on the result of optimizeResourceAllocation
\* with the resource list of the optimization adds no conflict: the
\* conflicts of the leveled result are those of the optimizer's result, for
\* every task list with non-negative amounts
\* ------------------------------------------------------------------------
NonNegativeAmounts ==
  \A i \in DOMAIN tasks : \A k \in DOMAIN tasks[i].requiredResources :
    tasks[i].requiredResources[k].amount >= 0

LeveledWithSameResources ==
  /\ method = "optimize"
  /\ pc = "leveled"
  /\ levelingResources = resources
  /\ NonNegativeAmounts

C27_LevelingAddsNoConflict ==
  LeveledWithSameResources =>
    /\ levelingResult.conflicts = conflicts
    /\ levelingResult = optimizationResult

\* a leveled result in which a resource is used to its full capacity in
\* some period and a task was left unscheduled
C27_Witness ==
  /\ LeveledWithSameResources
  /\ conflicts # <<>>
  /\ \E r \in DOMAIN resources :
       \E p \in DOMAIN resourceUtilization[resources[r].id] :
         /\ resourceUtilization[resources[r].id][p] > 0
         /\ resourceUtilization[resources[r].id][p]
              = levelingCapacity(resources[r], p - 1)

\* ------------------------------------------------------------------------
\* C28: the bestPath analyzeDecisionTree returns is a walk of the tree from
\* the root to a leaf: its first element is the name of the root, every
\* next element is the name of a child of the node before it, and it ends
\* at an outcome node or at a node without children; when the root is a
\* decision node with two children or more, riskAnalysis.bestOption is the
\* second element of bestPath (bestPath[1] counted from 0)
\* ------------------------------------------------------------------------
EndsWalk(n) ==
  decisionTree[n].type = "outcome" \/ Len(decisionTree[n].children) = 0

\* path, from its element i on, names a walk from node n to a leaf
RECURSIVE NamesWalk(_, _, _)
NamesWalk(n, path, i) ==
  /\ i <= Len(path)
  /\ path[i] = decisionTree[n].name
  /\ IF i = Len(path)
     THEN EndsWalk(n)
     ELSE /\ ~EndsWalk(n)
          /\ \E k \in DOMAIN decisionTree[n].children :
               NamesWalk(decisionTree[n].children[k], path, i + 1)

C28_BestPathIsWalk ==
  Analyzed =>
    /\ NamesWalk(1, analysis.bestPath, 1)
    /\ 1 \in DecisionNodes =>
         /\ ~analysis.riskAnalysis.isUndefined
         /\ Len(analysis.bestPath) >= 2
         /\ analysis.riskAnalysis.bestOption = analysis.bestPath[2]

\* an analysis of a decision root whose best path goes through a child with
\* children of its own, the tie-break having taken the second option
C28_Witness ==
  /\ Analyzed
  /\ 1 \in DecisionNodes
  /\ Len(analysis.bestPath) >= 3
  /\ analysis.riskAnalysis.bestOption = ChildName(1, SecondChild(1))
  /\ ChildName(1, SecondChild(1)) # ChildName(1, BestChild(1))

\* ------------------------------------------------------------------------
\* C29: for a decision root, the expectedValue analyzeDecisionTree reports
\* is never less than the expected value of the child bestPath goes
\* through; the two are equal when the tie-break did not switch to the
\* second-ranked child, and expectedValue is strictly greater when the
\* tie-break took a second-ranked child of a lower expected value
\* ------------------------------------------------------------------------
\* the position of the child of the root that bestPath goes through
ThroughChild ==
  CHOOSE k \in DOMAIN decisionTree[1].children :
    ChildName(1, k) = analysis.bestPath[2]

\* the tie-break switched: it says so in the reasoning
Switched ==
  \E r \in DOMAIN analysis.riskAnalysis.reasoning :
    analysis.riskAnalysis.reasoning[r].text = "offers better risk-adjusted returns"

DecisionRootAnalyzed ==
  Analyzed /\ 1 \in DecisionNodes /\ NamedApart(1)

FracSame(a, b) == ~FracLess(a, b) /\ ~FracLess(b, a)

C29_ValueOfBestPath ==
  DecisionRootAnalyzed =>
    LET through == ChildValues(1)[ThroughChild]
    IN /\ ~FracLess(analysis.expectedValue, through)
       /\ ~Switched => /\ ThroughChild = BestChild(1)
                       /\ FracSame(analysis.expectedValue, through)
       /\ Switched => /\ ThroughChild = SecondChild(1)
                      /\ FracLess(through, ChildValues(1)[BestChild(1)]) =>
                           FracLess(through, analysis.expectedValue)

\* an analysis in which the tie-break took a second child of a lower
\* expected value
C29_Witness ==
  /\ DecisionRootAnalyzed
  /\ Switched
  /\ FracLess(ChildValues(1)[ThroughChild], analysis.expectedValue)

\* ------------------------------------------------------------------------
\* C30: in CostEstimationForm every started Delphi or regression run sets
\* loading back to false, whether the server answers with success, with an
\* error status (400 for fewer than two historical projects, for one) or
\* the fetch fails, so that the Run buttons become usable again.
\* Only the two runs set loading, so a run that has ended with loading
\* still true leaves it true for good. The code returns from the run on an
\* error status before it reaches setLoading(false).
\* ------------------------------------------------------------------------
\* no run awaits an answer: none was started, or the last one has ended
NoRunPending == pending = "none"

\* where a run ends with loading still true: after an error status only
C30_StuckOnErrorStatusOnly ==
  (NoRunPending /\ loading) =>
    /\ pc = "shown"
    /\ answer.status # 200
    /\ error = answer.error
    /\ ~ENABLED RunDelphiEstimation
    /\ ~ENABLED RunRegressionEstimation

C30_LoadingSetBack == NoRunPending => ~loading
====
